---- MODULE Spec2Model ----
(***************************************************************************)
(* Verification model of the MACE active-learning orchestration code:      *)
(*   - check_convergence.py     the convergence evaluator (pure function)  *)
(*   - checkpoint_resolver.py   resolve_checkpoint_in_dir                  *)
(*   - run_committee_web.py     committee training on an existing split    *)
(*   - run_training_web.py      split + (fine-tune) + committee training   *)
(*   - mace_active_learning.py  top_k, the structure selection             *)
(*   - split_dataset_pool.py, split_dataset.py   the dataset splitters     *)
(*                                                                         *)
(* Floating-point numbers are modelled as exact rationals <<num, den>>     *)
(* (den > 0, lowest terms); rounding of IEEE doubles is not modelled.      *)
(***************************************************************************)
EXTENDS Integers, Sequences, FiniteSets, TLC

VARIABLES
    conv_pc,      \* position of a check_convergence call: "idle" | "call" | "returned"
    conv_in,      \* the arguments of the call
    conv_out,     \* the returned dict (NoResult before the return)
    seed_src,     \* seed_checkpoint_for_run calls: the source checkpoint
    seed_dir0,    \*   the member's checkpoint directory before the first call
    seed_dir,     \*   the directory now
    seed_hist,    \*   the results of the calls made so far
    topk_in,      \* structure selection: the scores and the count K
    topk_out,     \*   the outcome of top_k (NoResult before the call)
    split_in,     \* a splitter run's arguments: script, N, fractions, seed
    split_hist,   \*   the outcomes of the runs made so far with these arguments
    call_in,      \* a call of one of the helper functions: its arguments
    call_out,     \*   what it returned (NoResult before the call)
    inv,          \* orchestrator: number of invocations started so far
    pc,           \*   position of the running invocation ("idle" between two)
    cfg,          \*   its environment (RUN_ID fixed; ITER, COMMITTEE_SIZE, ...)
    loop_i,       \*   index i of the committee loop
    model_override, \* the shared initial checkpoint in use ("none" without one)
    checkpoints,  \*   the checkpoints collected so far
    events,       \*   the JSON events emitted on stdout by this invocation
    ret,          \*   <<>> while running, <<return code>> after the return
    procs,        \*   the trainer processes this invocation started, in order
    reusable,     \*   history: the member slots whose checkpoint an earlier
                  \*   invocation listed in its done event
    fs_ckpt,      \* files: the checkpoint directory of every slot of the run
    fs_data,      \*   runs_web/<run_id>/data: the split files
    fs_freeze,    \*   runs_web/<run_id>/freeze/freeze_init.pt
    src           \*   a checkpoint supplied from outside the run directory

conv_vars == <<conv_pc, conv_in, conv_out>>
seed_vars == <<seed_src, seed_dir0, seed_dir, seed_hist>>
run_vars  == <<inv, pc, cfg, loop_i, model_override, checkpoints, events, ret, procs>>
fs_vars   == <<fs_ckpt, fs_data, fs_freeze, src>>
orch_vars == <<run_vars, fs_vars, reusable>>
topk_vars == <<topk_in, topk_out>>
split_vars == <<split_in, split_hist>>
call_vars == <<call_in, call_out>>
other_vars == <<conv_vars, seed_vars, topk_vars, split_vars, call_vars>>

vars == <<conv_vars, seed_vars, topk_vars, split_vars, call_vars, orch_vars>>

(***************************************************************************)
(* Rational arithmetic (Python floats)                                     *)
(***************************************************************************)
Abs(n) == IF n < 0 THEN -n ELSE n

RECURSIVE Gcd(_, _)
Gcd(a, b) == IF b = 0 THEN a ELSE Gcd(b, a % b)

\* The float n/d, in lowest terms with a positive denominator.
Rat(n, d) ==
    LET s == IF d < 0 THEN -1 ELSE 1
        g == Gcd(Abs(n), Abs(d))
    IN  <<(s * n) \div g, (s * d) \div g>>

Zero == Rat(0, 1)

RMul(x, y) == Rat(x[1] * y[1], x[2] * y[2])
RDiv(x, y) == Rat(x[1] * y[2], x[2] * y[1])
RAdd(x, y) == Rat(x[1] * y[2] + y[1] * x[2], x[2] * y[2])
RLe(x, y)  == x[1] * y[2] <= y[1] * x[2]
RGt(x, y)  == x[1] * y[2] > y[1] * x[2]

(***************************************************************************)
(* Python dicts: functions whose domain is the set of keys present         *)
(***************************************************************************)
EmptyDict == [k \in {} |-> 0]

\* d.get(k, default)
Get(d, k, default) == IF k \in DOMAIN d THEN d[k] ELSE default

\* d[k] = v
Put(d, k, v) == [x \in (DOMAIN d) \cup {k} |-> IF x = k THEN v ELSE d[x]]

(***************************************************************************)
(* check_convergence.py                                                    *)
(***************************************************************************)
\* the first score taken for the greatest
NpMax_First(arr) == arr[1]

\* np.max / np.mean of the per-structure scores (legacy reports without stats)
RECURSIVE NpMax(_)
NpMax(arr) ==
    IF Len(arr) = 1 THEN arr[1]
    ELSE LET m == NpMax(Tail(arr))
         IN  IF RGt(arr[1], m) THEN arr[1] ELSE m

RECURSIVE NpSum(_)
NpSum(arr) == IF arr = <<>> THEN Zero ELSE RAdd(arr[1], NpSum(Tail(arr)))

NpMean(arr) == RDiv(NpSum(arr), Rat(Len(arr), 1))

\* [p.get("score", 0) for p in per_structure]
ScoresOf(per_structure) ==
    [i \in 1..Len(per_structure) |-> Get(per_structure[i], "score", Zero)]

\* sum(1 for p in per_structure if p.get("score", 0) > cutoff_ev)
RECURSIVE CountAbove(_, _)
CountAbove(per_structure, cutoff_ev) ==
    IF per_structure = <<>> THEN 0
    ELSE (IF RGt(Get(per_structure[1], "score", Zero), cutoff_ev) THEN 1 ELSE 0)
         + CountAbove(Tail(per_structure), cutoff_ev)

\* the conversion applied twice
EV_PER_ANG_TO_MEV_Twice == Rat(1000000, 1)

EV_PER_ANG_TO_MEV == Rat(1000, 1)

\* validation_mae is None
None == <<>>

\* The three criteria as check_convergence evaluates them.
DisagreementLow(score_max_mev, score_mean_mev, max_thr, mean_thr) ==
    RLe(score_max_mev, max_thr) /\ RLe(score_mean_mev, mean_thr)

\* the pool taken for exhausted without asking whether it holds anything
PoolExhausted_AlsoWhenEmpty(above_cutoff, score_count) ==
    above_cutoff = 0

PoolExhausted(above_cutoff, score_count) ==
    above_cutoff = 0 /\ score_count > 0

\* the force MAE left unchecked
MaeOk_EnergyOnly(mae_energy, mae_force, e_thr, f_thr) ==
    RLe(mae_energy, e_thr)

MaeOk(mae_energy, mae_force, e_thr, f_thr) ==
    RLe(mae_energy, e_thr) /\ RLe(mae_force, f_thr)

\* AND logic: every criterion has to be satisfied
Converged_All(reasons) == Len(reasons) = 3

Converged(reasons) == reasons # <<>>

\* the stop suggestion taken from the validation criterion only
SuggestStop_ValidationOnly(converged, mae_ok, validation_mae) ==
    IF validation_mae # None THEN mae_ok ELSE FALSE

SuggestStop(converged, mae_ok, validation_mae) ==
    converged \/ (IF validation_mae # None THEN mae_ok ELSE FALSE)

check_convergence(disagreement_data, validation_mae, disagreement_max_threshold, disagreement_mean_threshold, mae_energy_threshold, mae_force_threshold, pool_exhaustion_cutoff) ==
    LET stats         == Get(disagreement_data, "stats", EmptyDict)
        per_structure == Get(disagreement_data, "per_structure", <<>>)
        pool_size     == Get(disagreement_data, "pool_size", Len(per_structure))
        has_stats     == DOMAIN stats # {}
        scores_arr    == ScoresOf(per_structure)
        score_max     == IF has_stats THEN Get(stats, "max", Zero)
                         ELSE IF Len(scores_arr) > 0 THEN NpMax(scores_arr) ELSE Zero
        score_mean    == IF has_stats THEN Get(stats, "mean", Zero)
                         ELSE IF Len(scores_arr) > 0 THEN NpMean(scores_arr) ELSE Zero
        score_count   == IF has_stats THEN Get(stats, "count", 0)
                         ELSE Len(scores_arr)
        score_max_mev  == RMul(score_max, EV_PER_ANG_TO_MEV)
        score_mean_mev == RMul(score_mean, EV_PER_ANG_TO_MEV)
        metrics1 == Put(Put(Put(EmptyDict,
                        "disagreement_max", score_max_mev),
                        "disagreement_mean", score_mean_mev),
                        "pool_size", pool_size)
        \* Criterion 1
        disagreement_low == DisagreementLow(score_max_mev, score_mean_mev,
                                disagreement_max_threshold, disagreement_mean_threshold)
        reasons1 == IF disagreement_low
                    THEN <<[kind |-> "disagreement_low",
                            max |-> score_max_mev, mean |-> score_mean_mev]>>
                    ELSE <<>>
        metrics2 == IF disagreement_low THEN metrics1
                    ELSE Put(metrics1, "disagreement_reason",
                             [max |-> score_max_mev, mean |-> score_mean_mev])
        \* Criterion 2
        cutoff_ev      == RDiv(pool_exhaustion_cutoff, EV_PER_ANG_TO_MEV)
        above_cutoff   == CountAbove(per_structure, cutoff_ev)
        pool_exhausted == PoolExhausted(above_cutoff, score_count)
        reasons2 == IF pool_exhausted
                    THEN Append(reasons1, [kind |-> "pool_exhausted",
                                           cutoff |-> pool_exhaustion_cutoff])
                    ELSE reasons1
        metrics3 == Put(metrics2, "structures_above_cutoff", above_cutoff)
        \* Criterion 3
        mae_ok == IF validation_mae # None
                  THEN MaeOk(validation_mae[1], validation_mae[2],
                             mae_energy_threshold, mae_force_threshold)
                  ELSE FALSE
        reasons3 == IF validation_mae # None /\ mae_ok
                    THEN Append(reasons2, [kind |-> "validation_mae",
                                           E |-> validation_mae[1], F |-> validation_mae[2]])
                    ELSE reasons2
        metrics4 == IF validation_mae # None
                    THEN LET m == Put(Put(metrics3,
                                      "validation_mae_energy", validation_mae[1]),
                                      "validation_mae_force", validation_mae[2])
                         IN  IF mae_ok THEN m
                             ELSE Put(m, "mae_reason",
                                      [E |-> validation_mae[1], F |-> validation_mae[2]])
                    ELSE metrics3
        converged    == Converged(reasons3)
        suggest_stop == SuggestStop(converged, mae_ok, validation_mae)
    IN  [converged    |-> converged,
         reasons      |-> reasons3,
         suggest_stop |-> suggest_stop,
         metrics      |-> metrics4]

(***************************************************************************)
(* checkpoint_resolver.py                                                  *)
(*                                                                         *)
(* A file name is [base, epoch, ext]: the text base ++ "_epoch-<epoch>"    *)
(* (when epoch >= 0) ++ "." ++ ext.  A directory is [exists, files], files *)
(* being its entries in listing order; an entry is                         *)
(* [name, is_file, mtime, content].                                        *)
(***************************************************************************)
NoEpoch == -1

FileName(base, epoch, ext) == [base |-> base, epoch |-> epoch, ext |-> ext]

BestPt == FileName(<<"best">>, NoEpoch, "pt")

\* "no path" (Python None) as a value of the same shape as a file name
NoPath == FileName(<<>>, NoEpoch, "")

MissingDir == [exists |-> FALSE, files |-> <<>>]

\* p.name matches EPOCH_RE = epoch-(\d+)\.pt$
EpochMatch(name) == name.epoch >= 0 /\ name.ext = "pt"

\* sort_key that looks at the modification time only
sort_key_MtimeOnly(entry) == <<0, entry.mtime>>

\* sort_key(path) = (epoch, mtime)
sort_key(entry) ==
    <<IF EpochMatch(entry.name) THEN entry.name.epoch ELSE NoEpoch, entry.mtime>>

KeyLess(a, b) == a[1] < b[1] \/ (a[1] = b[1] /\ a[2] < b[2])

\* [p for p in checkpoints_dir.glob("*.pt") if p.is_file()]
PtFiles(files) == SelectSeq(files, LAMBDA e : e.name.ext = "pt" /\ e.is_file)

\* pt_files.sort(key=sort_key, reverse=True); pt_files[0]: the sort is stable,
\* so among the entries of greatest key the first in listing order comes first.
SortedFirst(pt_files) ==
    LET top == CHOOSE i \in 1..Len(pt_files) :
                  /\ \A j \in 1..Len(pt_files) :
                        ~KeyLess(sort_key(pt_files[i]), sort_key(pt_files[j]))
                  /\ \A j \in 1..(i - 1) :
                        KeyLess(sort_key(pt_files[j]), sort_key(pt_files[i]))
    IN  pt_files[top]

HasEntry(files, name) == \E i \in 1..Len(files) : files[i].name = name

resolve_checkpoint_in_dir(checkpoints_dir) ==
    IF ~checkpoints_dir.exists THEN NoPath
    ELSE IF HasEntry(checkpoints_dir.files, BestPt) THEN BestPt
    ELSE IF PtFiles(checkpoints_dir.files) = <<>> THEN NoPath
    ELSE SortedFirst(PtFiles(checkpoints_dir.files)).name

(***************************************************************************)
(* seed_checkpoint_for_run (run_committee_web.py, run_training_web.py)     *)
(***************************************************************************)
\* the committee member name f"c{i}"
CName(i) == <<"c", i>>

\* the tag <name>_run-<seed> of a member's files
RunTag(name, seed) == <<name, "_run-", seed>>

\* ckpt_dir / f"{name}_run-{seed}_epoch-0.pt"
SeedTarget(name, seed) == FileName(RunTag(name, seed), 0, "pt")

\* ckpt_dir.mkdir(parents=True, exist_ok=True)
Mkdir(dir) == IF dir.exists THEN dir ELSE [exists |-> TRUE, files |-> <<>>]

\* shutil.copy2(source, target): the target gets the source's content and
\* modification time; an existing target is overwritten in place.
Copy2(dir, source, target) ==
    LET e == [name |-> target, is_file |-> TRUE,
              mtime |-> source.mtime, content |-> source.content]
    IN  IF HasEntry(dir.files, target)
        THEN [dir EXCEPT !.files =
                 [i \in 1..Len(dir.files) |->
                     \* a target that is a directory receives the copy inside it
                     IF dir.files[i].name = target /\ dir.files[i].is_file
                     THEN e ELSE dir.files[i]]]
        ELSE [dir EXCEPT !.files = Append(dir.files, e)]

\* seeding that copies even when the directory already resolves
SeedDir_AlwaysCopy(source, dir, name, seed) ==
    Copy2(Mkdir(dir), source, SeedTarget(name, seed))

\* seeding that makes the directory and copies nothing
SeedDir_NoCopy(source, dir, name, seed) == Mkdir(dir)

\* The directory as seed_checkpoint_for_run leaves it (source exists).
SeedDir(source, dir, name, seed) ==
    IF resolve_checkpoint_in_dir(Mkdir(dir)) # NoPath THEN Mkdir(dir)
    ELSE Copy2(Mkdir(dir), source, SeedTarget(name, seed))

\* The result of seed_checkpoint_for_run: raised (FileNotFoundError), the
\* directory afterwards, the path returned, and whether a copy was made.
seed_checkpoint_for_run(source, ckpt_dir, name, seed) ==
    IF ~source.exists
    THEN [raised |-> TRUE, dir |-> ckpt_dir, path |-> NoPath, copied |-> FALSE]
    ELSE LET existing == resolve_checkpoint_in_dir(Mkdir(ckpt_dir))
         IN  [raised |-> FALSE,
              dir    |-> SeedDir(source, ckpt_dir, name, seed),
              path   |-> IF existing # NoPath THEN existing
                         ELSE SeedTarget(name, seed),
              copied |-> existing = NoPath]

(***************************************************************************)
(* The orchestrators: run_committee_web.main ("RC") and                    *)
(* run_training_web.main ("RT"), invoked one after the other on the run    *)
(* directory runs_web/<run_id> of one RUN_ID.                              *)
(***************************************************************************)
MaxInvocations == 2
MaxIter == 1
MaxCommittee == 2
MaxExitCode == 2
MaxLines == 1
MaxEpoch == 1

\* run_root/iter_<NN>/c<m>/checkpoints, run_root/base/base_model/checkpoints,
\* run_root/<run_name>/checkpoints
MemberSlot(n, m) == [kind |-> "iter", iter |-> n, member |-> m]
BaseSlot   == [kind |-> "base", iter |-> -1, member |-> -1]
SingleSlot == [kind |-> "single", iter |-> -1, member |-> -1]
Slots == {MemberSlot(n, m) : n \in 0..MaxIter, m \in 0..(MaxCommittee - 1)}
            \cup {BaseSlot, SingleSlot}

\* the split files of a data directory
SplitFiles == {"train.xyz", "valid.xyz", "pool.xyz"}
NoFile == [exists |-> FALSE, by_iter |-> -1, by_inv |-> 0]

\* the environments of an invocation
Config(prog, iter, size, data_dir, model_path, committee, dataset_ok, fine_tune, freeze_env, base_env, tbf, patterns) ==
    [prog |-> prog, iter |-> iter, committee_size |-> size, data_dir |-> data_dir,
     model_path |-> model_path, committee_mode |-> committee, dataset_ok |-> dataset_ok,
     fine_tune |-> fine_tune, freeze_init_env |-> freeze_env, base_env |-> base_env,
     train_base_first |-> tbf, patterns_env |-> patterns]

\* run_committee_web: ITER, COMMITTEE_SIZE, DATA_DIR (a directory outside the
\* run that holds a split, or run_root/data), MODEL_PATH (unset, a checkpoint
\* outside the run, or run_root/freeze/freeze_init.pt)
RCConfigs ==
    {Config("RC", n, m, dd, mp, TRUE, TRUE, FALSE, "none", "none", TRUE, "unset") :
        n \in 0..MaxIter, m \in 0..MaxCommittee,
        dd \in {"external", "run_data"}, mp \in {"none", "external", "freeze_init"}}

\* FREEZE_PATTERNS_JSON: unset, a JSON list, or text that is not JSON
PatternEnvs == {"unset", "json_list", "invalid"}

\* run_training_web: COMMITTEE, ITER, COMMITTEE_SIZE, the dataset (present or
\* not), FINE_TUNE with FREEZE_INIT_PATH / BASE_CHECKPOINT_PATH (unset, an
\* existing file, a missing file), TRAIN_BASE_FIRST and FREEZE_PATTERNS_JSON
FineTuneEnvs ==
    {<<"external", "none", TRUE>>, <<"missing", "none", TRUE>>,
     <<"none", "external", TRUE>>, <<"none", "missing", TRUE>>,
     <<"none", "none", TRUE>>, <<"none", "none", FALSE>>}

RTConfigs ==
    {Config("RT", n, m, "run_data", "none", TRUE, ok, FALSE, "none", "none", TRUE, "unset") :
        n \in 0..MaxIter, m \in 0..MaxCommittee, ok \in BOOLEAN}
    \cup {Config("RT", n, m, "run_data", "none", TRUE, TRUE, TRUE, ft[1], ft[2], ft[3], "unset") :
        n \in 0..MaxIter, m \in 1..MaxCommittee, ft \in FineTuneEnvs}
    \cup {Config("RT", 0, 1, "run_data", "none", FALSE, TRUE, ft, fe, "none", TRUE, pat) :
        ft \in BOOLEAN, fe \in {"none", "external"}, pat \in PatternEnvs}

Configs == RCConfigs \cup RTConfigs

NoConfig == Config("none", 0, 0, "none", "none", FALSE, FALSE, FALSE, "none", "none", FALSE, "unset")

\* emit(obj)
Emit(ev, obj) == Append(ev, obj)

LogEvent(msg) == [event |-> "log", message |-> msg]
ErrorEvent(msg) == [event |-> "error", message |-> msg]

\* the checkpoint a path names: MODEL_PATH / FREEZE_INIT_PATH outside the run,
\* a path that does not exist, or run_root/freeze/freeze_init.pt
SourceOf(which) ==
    CASE which = "external"    -> src
      [] which = "freeze_init" -> fs_freeze
      [] OTHER                 -> [exists |-> FALSE, mtime |-> 0, content |-> "none"]

(***************************************************************************)
(* The trainer process (mace_train.py running mace_run_train)              *)
(***************************************************************************)
\* subprocess.Popen(cmd, stdout=PIPE, ...)
Popen(name, seed, slot) ==
    [name |-> name, seed |-> seed, slot |-> slot, status |-> "running",
     returncode |-> -1, out |-> <<>>, printed |-> 0, saved |-> FALSE]

Cur == procs[Len(procs)]

SetCur(p) == [procs EXCEPT ![Len(procs)] = p]

\* the trainer saves <name>_run-<seed>_epoch-<e>.pt in its checkpoints directory
TrainerWrite(dir, name, seed, e, now) ==
    LET f == FileName(RunTag(name, seed), e, "pt")
        entry == [name |-> f, is_file |-> TRUE, mtime |-> now, content |-> "trained"]
        d == Mkdir(dir)
    IN  IF HasEntry(d.files, f)
        THEN [d EXCEPT !.files = [j \in 1..Len(d.files) |->
                                     IF d.files[j].name = f THEN entry ELSE d.files[j]]]
        ELSE [d EXCEPT !.files = Append(d.files, entry)]

\* The trainer prints a line: an epoch line (matching EPOCH_RE) or other text.
TrainerPrint(k) ==
    /\ procs[k].status = "running"
    /\ procs[k].printed < MaxLines
    /\ \E line \in {"epoch", "text"} :
          procs' = [procs EXCEPT ![k].out = Append(@, line), ![k].printed = @ + 1]
    /\ UNCHANGED <<other_vars, reusable, inv, pc, cfg, loop_i, model_override, checkpoints, events, ret, fs_vars>>

\* The trainer saves a checkpoint.
TrainerSave(k) ==
    /\ procs[k].status \in {"running", "closed"}
    /\ ~procs[k].saved
    /\ \E e \in 1..MaxEpoch :
          fs_ckpt' = [fs_ckpt EXCEPT ![procs[k].slot] =
                         TrainerWrite(@, procs[k].name, procs[k].seed, e, inv)]
    /\ procs' = [procs EXCEPT ![k].saved = TRUE]
    /\ UNCHANGED <<other_vars, reusable, inv, pc, cfg, loop_i, model_override, checkpoints, events, ret,
                   fs_data, fs_freeze, src>>

\* The trainer closes its stdout (the reader then sees EOF after the pending lines).
TrainerCloseStdout(k) ==
    /\ procs[k].status = "running"
    /\ procs' = [procs EXCEPT ![k].status = "closed"]
    /\ UNCHANGED <<other_vars, reusable, inv, pc, cfg, loop_i, model_override, checkpoints, events, ret, fs_vars>>

\* The trainer exits with a return code.
TrainerExit(k) ==
    /\ procs[k].status \in {"running", "closed"}
    /\ \E rc \in 0..MaxExitCode :
          procs' = [procs EXCEPT ![k].status = "exited", ![k].returncode = rc]
    /\ UNCHANGED <<other_vars, reusable, inv, pc, cfg, loop_i, model_override, checkpoints, events, ret, fs_vars>>

Trainer == \E k \in 1..Len(procs) :
              TrainerPrint(k) \/ TrainerSave(k) \/ TrainerCloseStdout(k) \/ TrainerExit(k)

\* for line in proc.stdout: a line is there to read
LineReady(p) == p.out # <<>>

\* for line in proc.stdout ends: EOF, every line read
StdoutEOF(p) == p.status # "running" /\ p.out = <<>>

\* proc.wait() returns at once, without waiting for the exit
WaitReturns_NoWait(p) == TRUE

\* proc.wait() returns: the process has exited
WaitReturns(p) == p.status = "exited"

\* the event a line of trainer output is turned into
LineEvent(line, model) ==
    IF line = "epoch" THEN [event |-> "progress", model |-> model]
    ELSE LogEvent(<<"line">>)

\* return 0 whatever happened
Return_AlwaysZero(code) == /\ ret' = <<0>>
                           /\ pc' = "returned"

\* return <code> from main
Return(code) == /\ ret' = <<code>>
                /\ pc' = "returned"

(***************************************************************************)
(* Invocation                                                              *)
(***************************************************************************)
\* the member slots listed in the done event of the invocation that has returned
ListedSlots ==
    IF ret = <<0>> /\ cfg.committee_mode
    THEN {checkpoints[m].slot : m \in 1..Len(checkpoints)}
    ELSE {}

\* A caller starts the next invocation once the previous one has returned.
Invoke ==
    /\ pc \in {"idle", "returned"}
    /\ inv < MaxInvocations
    /\ \E c \in Configs :
          /\ cfg' = c
          /\ pc' = IF c.prog = "RC" THEN "rc_start" ELSE "rt_start"
    /\ inv' = inv + 1
    /\ loop_i' = 0
    /\ model_override' = "none"
    /\ checkpoints' = <<>>
    /\ events' = <<>>
    /\ ret' = <<>>
    /\ procs' = <<>>
    /\ reusable' = reusable \cup ListedSlots
    /\ UNCHANGED <<other_vars, fs_vars>>

(***************************************************************************)
(* run_committee_web.main                                                  *)
(***************************************************************************)
\* does DATA_DIR exist / hold train.xyz and valid.xyz
DataDirExists(dd) == dd = "external" \/ fs_data.dir_exists
SplitPresent(dd) ==
    dd = "external" \/ (fs_data.files["train.xyz"].exists /\ fs_data.files["valid.xyz"].exists)

\* lines 94-125: read the environment, validate, create work_dir.
RC_Start ==
    /\ pc = "rc_start"
    /\ \/ /\ ~DataDirExists(cfg.data_dir)
          /\ events' = Emit(events, ErrorEvent(<<"DATA_DIR missing or invalid">>))
          /\ Return(1)
          /\ UNCHANGED model_override
       \/ /\ DataDirExists(cfg.data_dir)
          /\ cfg.model_path # "none" /\ ~SourceOf(cfg.model_path).exists
          /\ events' = Emit(events, ErrorEvent(<<"MODEL_PATH not found">>))
          /\ Return(1)
          /\ UNCHANGED model_override
       \/ /\ DataDirExists(cfg.data_dir)
          /\ cfg.model_path # "none" => SourceOf(cfg.model_path).exists
          /\ ~SplitPresent(cfg.data_dir)
          /\ events' = Emit(events, ErrorEvent(<<"train.xyz or valid.xyz not found in DATA_DIR">>))
          /\ Return(1)
          /\ UNCHANGED model_override
       \/ /\ DataDirExists(cfg.data_dir)
          /\ cfg.model_path # "none" => SourceOf(cfg.model_path).exists
          /\ SplitPresent(cfg.data_dir)
          /\ model_override' = cfg.model_path
          /\ pc' = "rc_member"
          /\ UNCHANGED <<events, ret>>
    /\ UNCHANGED <<other_vars, reusable, inv, cfg, loop_i, checkpoints, procs, fs_vars>>

\* The body of "if model_path is not None" for member loop_i (both mains): the
\* seeding and its events; shutil.copy2 may fail with an OSError.
SeedMember(ev, slot, name, seed, next_pc) ==
    LET r == seed_checkpoint_for_run(SourceOf(model_override), fs_ckpt[slot], name, seed)
    IN  \/ /\ ~r.raised
           /\ fs_ckpt' = [fs_ckpt EXCEPT ![slot] = r.dir]
           /\ events' = Emit(ev, LogEvent(<<"Loaded fine-tune init checkpoint", name, r.path>>))
           /\ pc' = next_pc
           /\ UNCHANGED ret
        \/ /\ r.raised \/ r.copied
           /\ fs_ckpt' = [fs_ckpt EXCEPT ![slot] = IF r.raised THEN @ ELSE Mkdir(@)]
           /\ events' = Emit(ev, ErrorEvent(<<"Failed to prepare fine-tune checkpoint", name>>))
           /\ Return(1)

\* lines 128-141: the head of the loop for member loop_i.
RC_Member ==
    /\ pc = "rc_member"
    /\ loop_i < cfg.committee_size
    /\ IF model_override # "none"
       THEN SeedMember(Emit(events, LogEvent(<<"Training committee model", CName(loop_i)>>)),
                       MemberSlot(cfg.iter, loop_i), CName(loop_i), loop_i, "rc_popen")
       ELSE /\ events' = Emit(events, LogEvent(<<"Training committee model", CName(loop_i)>>))
            /\ pc' = "rc_popen"
            /\ UNCHANGED <<ret, fs_ckpt>>
    /\ UNCHANGED <<other_vars, reusable, inv, cfg, loop_i, model_override, checkpoints, procs, fs_data, fs_freeze, src>>

\* lines 142-162: start the trainer of member loop_i.
RC_Popen ==
    /\ pc = "rc_popen"
    /\ procs' = Append(procs, Popen(CName(loop_i), loop_i, MemberSlot(cfg.iter, loop_i)))
    /\ pc' = "rc_read"
    /\ UNCHANGED <<other_vars, reusable, inv, cfg, loop_i, model_override, checkpoints, events, ret, fs_vars>>

\* lines 163-178: read one line of the trainer's output and relay it.
RC_ReadLine ==
    /\ pc = "rc_read"
    /\ LineReady(Cur)
    /\ events' = Emit(events, LineEvent(Head(Cur.out), Cur.name))
    /\ procs' = SetCur([Cur EXCEPT !.out = Tail(@)])
    /\ UNCHANGED <<other_vars, reusable, inv, pc, cfg, loop_i, model_override, checkpoints, ret, fs_vars>>

\* lines 163, 179: the read loop ends at EOF and proc.wait() returns.
RC_Wait ==
    /\ pc = "rc_read"
    /\ StdoutEOF(Cur)
    /\ WaitReturns(Cur)
    /\ pc' = "rc_exit"
    /\ UNCHANGED <<other_vars, reusable, inv, cfg, loop_i, model_override, checkpoints, events, ret, procs, fs_vars>>

\* only the exit code 1 taken for a failure
TrainFailed_OnlyOne(returncode) == returncode = 1

\* if proc.returncode != 0 / if rc != 0
TrainFailed(returncode) == returncode # 0

\* checkpoints.append(str(resolved_ckpt)) if resolved_ckpt is not None
Collect(list, slot, resolved) ==
    IF resolved # NoPath THEN Append(list, [slot |-> slot, file |-> resolved]) ELSE list

\* lines 180-185: the exit code of member loop_i, then its checkpoint.
RC_CheckExit ==
    /\ pc = "rc_exit"
    /\ \/ /\ TrainFailed(Cur.returncode)
          /\ events' = Emit(events, [event |-> "error", model |-> CName(loop_i),
                                     code |-> Cur.returncode])
          /\ Return(Cur.returncode)
          /\ UNCHANGED <<loop_i, checkpoints>>
       \/ /\ ~TrainFailed(Cur.returncode)
          /\ checkpoints' = Collect(checkpoints, MemberSlot(cfg.iter, loop_i),
                                resolve_checkpoint_in_dir(fs_ckpt[MemberSlot(cfg.iter, loop_i)]))
          /\ loop_i' = loop_i + 1
          /\ pc' = "rc_member"
          /\ UNCHANGED <<events, ret>>
    /\ UNCHANGED <<other_vars, reusable, inv, cfg, model_override, procs, fs_vars>>

\* lines 187-195: every member trained.
RC_Done ==
    /\ pc = "rc_member"
    /\ loop_i >= cfg.committee_size
    /\ events' = Emit(events, [event |-> "done", iter |-> cfg.iter,
                               checkpoints |-> checkpoints,
                               committee_size |-> cfg.committee_size])
    /\ Return(0)
    /\ UNCHANGED <<other_vars, reusable, inv, cfg, loop_i, model_override, checkpoints, procs, fs_vars>>

RC == RC_Start \/ RC_Member \/ RC_Popen \/ RC_ReadLine \/ RC_Wait \/ RC_CheckExit \/ RC_Done

(***************************************************************************)
(* run_training_web.main                                                   *)
(***************************************************************************)
\* run_name = RUN_NAME ("web_train"), seed = SEED
RunName == <<"web_train">>
DefaultSeed == 1

\* os.environ.get(name, ""): the text, what json.loads makes of it ("list" with
\* its items, or "error" for JSONDecodeError) and its pieces between commas
EnvText(kind) ==
    CASE kind = "json_list" -> [text |-> "[\"embedding\"]", json |-> "list",
                                items |-> <<"embedding">>, pieces |-> <<"[\"embedding\"]">>]
      [] kind = "invalid"   -> [text |-> "[embedding", json |-> "error",
                                items |-> <<>>, pieces |-> <<"[embedding">>]
      [] OTHER              -> [text |-> "", json |-> "error", items |-> <<>>, pieces |-> <<>>]

\* parse_patterns: a JSON list, else the comma-separated pieces, else the default
parse_patterns(raw, default) ==
    IF raw.text = "" THEN default
    ELSE IF raw.json = "list" /\ raw.items # <<>> THEN raw.items
    ELSE IF raw.json = "list" THEN default
    ELSE IF raw.pieces # <<>> THEN raw.pieces
    ELSE default

\* freeze_patterns, unfreeze_patterns of the invocation (lines 228-229)
FreezePatterns == parse_patterns(EnvText(cfg.patterns_env), <<"embedding", "radial">>)

UnfreezePatterns == parse_patterns(EnvText("unset"), <<"readout">>)

\* the split files a split writes: pool.xyz only with split_with_pool
SplitOutputs(split_with_pool) ==
    IF split_with_pool THEN SplitFiles ELSE {"train.xyz", "valid.xyz"}

\* the data directory the split is written to: run_root/data, whatever ITER
WriteSplit(data, outputs, iter, now) ==
    [data EXCEPT !.files = [f \in SplitFiles |->
        IF f \in outputs THEN [exists |-> TRUE, by_iter |-> iter, by_inv |-> now]
        ELSE data.files[f]]]

\* lines 208-256: read the environment, create work_dir and data_dir, find the input.
RT_Start ==
    /\ pc = "rt_start"
    /\ fs_data' = [fs_data EXCEPT !.dir_exists = TRUE]
    /\ \/ /\ ~cfg.dataset_ok
          /\ events' = Emit(events, ErrorEvent(<<"dataset not found">>))
          /\ Return(1)
       \/ /\ cfg.dataset_ok
          /\ pc' = "rt_split"
          /\ UNCHANGED <<events, ret>>
    /\ UNCHANGED <<other_vars, reusable, inv, cfg, loop_i, model_override, checkpoints, procs, fs_ckpt, fs_freeze, src>>

\* lines 257-284: run the split script; it succeeds or fails.
RT_Split ==
    /\ pc = "rt_split"
    /\ \/ /\ fs_data' = WriteSplit(fs_data, SplitOutputs(cfg.committee_mode), cfg.iter, inv)
          /\ events' = Emit(events, LogEvent(<<"Splitting dataset...">>))
          /\ pc' = "rt_finetune"
          /\ UNCHANGED ret
       \/ /\ events' = Emit(Emit(events, LogEvent(<<"Splitting dataset...">>)),
                            ErrorEvent(<<"Split failed">>))
          /\ Return(1)
          /\ UNCHANGED fs_data
    /\ UNCHANGED <<other_vars, reusable, inv, cfg, loop_i, model_override, checkpoints, procs, fs_ckpt, fs_freeze, src>>

\* lines 286-322: fine-tune mode: find the freeze-init checkpoint, or the base
\* checkpoint, or start the training of a base model.
RT_FineTune ==
    /\ pc = "rt_finetune"
    /\ \/ /\ ~cfg.fine_tune
          /\ pc' = "rt_train"
          /\ UNCHANGED <<events, ret, model_override, procs>>
       \/ /\ cfg.fine_tune
          /\ cfg.freeze_init_env # "none"
          /\ ~SourceOf(cfg.freeze_init_env).exists
          /\ events' = Emit(Emit(events, LogEvent(<<"Fine-tune mode enabled">>)),
                            ErrorEvent(<<"Provided freeze_init checkpoint not found">>))
          /\ Return(1)
          /\ UNCHANGED <<model_override, procs>>
       \/ /\ cfg.fine_tune
          /\ cfg.freeze_init_env # "none"
          /\ SourceOf(cfg.freeze_init_env).exists
          /\ model_override' = cfg.freeze_init_env
          /\ events' = Emit(events, LogEvent(<<"Fine-tune mode enabled">>))
          /\ pc' = "rt_train"
          /\ UNCHANGED <<ret, procs>>
       \/ /\ cfg.fine_tune
          /\ cfg.freeze_init_env = "none"
          /\ cfg.base_env # "none"
          /\ ~SourceOf(cfg.base_env).exists
          /\ events' = Emit(Emit(events, LogEvent(<<"Fine-tune mode enabled">>)),
                            ErrorEvent(<<"Provided base checkpoint not found">>))
          /\ Return(1)
          /\ UNCHANGED <<model_override, procs>>
       \/ /\ cfg.fine_tune
          /\ cfg.freeze_init_env = "none"
          /\ cfg.base_env # "none"
          /\ SourceOf(cfg.base_env).exists
          /\ events' = Emit(events, LogEvent(<<"Fine-tune mode enabled">>))
          /\ pc' = "rt_freeze"
          /\ UNCHANGED <<ret, model_override, procs>>
       \/ /\ cfg.fine_tune
          /\ cfg.freeze_init_env = "none"
          /\ cfg.base_env = "none"
          /\ ~cfg.train_base_first
          /\ events' = Emit(Emit(events, LogEvent(<<"Fine-tune mode enabled">>)),
                            ErrorEvent(<<"Fine-tune mode requires base checkpoint path or TRAIN_BASE_FIRST=1">>))
          /\ Return(1)
          /\ UNCHANGED <<model_override, procs>>
       \/ /\ cfg.fine_tune
          /\ cfg.freeze_init_env = "none"
          /\ cfg.base_env = "none"
          /\ cfg.train_base_first
          /\ events' = Emit(Emit(events, LogEvent(<<"Fine-tune mode enabled">>)),
                            LogEvent(<<"Training base model before freezing...">>))
          /\ procs' = Append(procs, Popen(<<"base_model">>, DefaultSeed, BaseSlot))
          /\ pc' = "rt_base_read"
          /\ UNCHANGED <<ret, model_override>>
    /\ UNCHANGED <<other_vars, reusable, inv, cfg, loop_i, checkpoints, fs_vars>>

\* run_mace_train is called for the base model, a committee member, the single model
TrainReads == {"rt_base_read", "rt_read", "rt_single_read"}

AfterTrain(at) ==
    CASE at = "rt_base_read"   -> "rt_base_exit"
      [] at = "rt_read"        -> "rt_exit"
      [] at = "rt_single_read" -> "rt_single_exit"

\* progress_model of the call
ProgressModel(at) ==
    CASE at = "rt_base_read"   -> <<"base">>
      [] at = "rt_read"        -> Cur.name
      [] at = "rt_single_read" -> <<>>

\* run_mace_train lines 185-202: read one line and relay it.
RunMaceTrain_ReadLine ==
    /\ pc \in TrainReads
    /\ LineReady(Cur)
    /\ events' = Emit(events, LineEvent(Head(Cur.out), ProgressModel(pc)))
    /\ procs' = SetCur([Cur EXCEPT !.out = Tail(@)])
    /\ UNCHANGED <<other_vars, reusable, inv, pc, cfg, loop_i, model_override, checkpoints, ret, fs_vars>>

\* run_mace_train lines 185, 203-204: EOF, proc.wait(), return proc.returncode.
RunMaceTrain_Return ==
    /\ pc \in TrainReads
    /\ StdoutEOF(Cur)
    /\ WaitReturns(Cur)
    /\ pc' = AfterTrain(pc)
    /\ UNCHANGED <<other_vars, reusable, inv, cfg, loop_i, model_override, checkpoints, events, ret, procs, fs_vars>>

\* lines 323-331: the base model's exit code and checkpoint.
RT_BaseExit ==
    /\ pc = "rt_base_exit"
    /\ \/ /\ Cur.returncode # 0
          /\ events' = Emit(events, [event |-> "error", model |-> <<"base">>,
                                     code |-> Cur.returncode])
          /\ Return(Cur.returncode)
       \/ /\ Cur.returncode = 0
          /\ resolve_checkpoint_in_dir(fs_ckpt[BaseSlot]) = NoPath
          /\ events' = Emit(events, ErrorEvent(<<"Base checkpoint missing">>))
          /\ Return(1)
       \/ /\ Cur.returncode = 0
          /\ resolve_checkpoint_in_dir(fs_ckpt[BaseSlot]) # NoPath
          /\ pc' = "rt_freeze"
          /\ UNCHANGED <<events, ret>>
    /\ UNCHANGED <<other_vars, reusable, inv, cfg, loop_i, model_override, checkpoints, procs, fs_vars>>

\* lines 333-367: run mace_freeze.py; it writes freeze/freeze_init.pt or fails.
RT_Freeze ==
    /\ pc = "rt_freeze"
    /\ \/ /\ fs_freeze' = [exists |-> TRUE, mtime |-> inv, content |-> "frozen",
                            freeze |-> FreezePatterns, unfreeze |-> UnfreezePatterns]
          /\ model_override' = "freeze_init"
          /\ events' = Emit(events, LogEvent(<<"Freeze complete">>))
          /\ pc' = "rt_train"
          /\ UNCHANGED ret
       \/ /\ events' = Emit(events, ErrorEvent(<<"mace_freeze.py failed">>))
          /\ Return(1)
          /\ UNCHANGED <<fs_freeze, model_override>>
    /\ UNCHANGED <<other_vars, reusable, inv, cfg, loop_i, checkpoints, procs, fs_ckpt, fs_data, src>>

\* lines 369-373, 424: start of the training proper.
RT_Train ==
    /\ pc = "rt_train"
    /\ events' = Emit(events, LogEvent(<<"Starting MACE training...">>))
    /\ pc' = IF cfg.committee_mode THEN "rt_member" ELSE "rt_single"
    /\ UNCHANGED <<other_vars, reusable, inv, cfg, loop_i, model_override, checkpoints, ret, procs, fs_vars>>

\* lines 374-388: the head of the committee loop for member loop_i.
RT_Member ==
    /\ pc = "rt_member"
    /\ loop_i < cfg.committee_size
    /\ IF model_override # "none"
       THEN SeedMember(Emit(events, LogEvent(<<"Training committee model", CName(loop_i)>>)),
                       MemberSlot(cfg.iter, loop_i), CName(loop_i), loop_i, "rt_popen")
       ELSE /\ events' = Emit(events, LogEvent(<<"Training committee model", CName(loop_i)>>))
            /\ pc' = "rt_popen"
            /\ UNCHANGED <<ret, fs_ckpt>>
    /\ UNCHANGED <<other_vars, reusable, inv, cfg, loop_i, model_override, checkpoints, procs, fs_data, fs_freeze, src>>

\* lines 389-398, run_mace_train lines 165-184: start the trainer of member loop_i.
RT_Popen ==
    /\ pc = "rt_popen"
    /\ procs' = Append(procs, Popen(CName(loop_i), loop_i, MemberSlot(cfg.iter, loop_i)))
    /\ pc' = "rt_read"
    /\ UNCHANGED <<other_vars, reusable, inv, cfg, loop_i, model_override, checkpoints, events, ret, fs_vars>>

\* lines 399-404: the exit code of member loop_i, then its checkpoint.
RT_CheckExit ==
    /\ pc = "rt_exit"
    /\ \/ /\ TrainFailed(Cur.returncode)
          /\ events' = Emit(events, [event |-> "error", model |-> CName(loop_i),
                                     code |-> Cur.returncode])
          /\ Return(Cur.returncode)
          /\ UNCHANGED <<loop_i, checkpoints>>
       \/ /\ ~TrainFailed(Cur.returncode)
          /\ checkpoints' = Collect(checkpoints, MemberSlot(cfg.iter, loop_i),
                                resolve_checkpoint_in_dir(fs_ckpt[MemberSlot(cfg.iter, loop_i)]))
          /\ loop_i' = loop_i + 1
          /\ pc' = "rt_member"
          /\ UNCHANGED <<events, ret>>
    /\ UNCHANGED <<other_vars, reusable, inv, cfg, model_override, procs, fs_vars>>

\* lines 406-422: every member trained.
RT_Done ==
    /\ pc = "rt_member"
    /\ loop_i >= cfg.committee_size
    /\ events' = Emit(events, [event |-> "done", iter |-> cfg.iter,
                               checkpoints |-> checkpoints,
                               committee_size |-> cfg.committee_size])
    /\ Return(0)
    /\ UNCHANGED <<other_vars, reusable, inv, cfg, loop_i, model_override, checkpoints, procs, fs_vars>>

\* lines 424-445: single model: seed the checkpoint, start the trainer.
RT_Single ==
    /\ pc = "rt_single"
    /\ IF model_override # "none"
       THEN SeedMember(events, SingleSlot, RunName, DefaultSeed, "rt_single_popen")
       ELSE /\ pc' = "rt_single_popen"
            /\ UNCHANGED <<events, ret, fs_ckpt>>
    /\ UNCHANGED <<other_vars, reusable, inv, cfg, loop_i, model_override, checkpoints, procs, fs_data, fs_freeze, src>>

RT_SinglePopen ==
    /\ pc = "rt_single_popen"
    /\ procs' = Append(procs, Popen(RunName, DefaultSeed, SingleSlot))
    /\ pc' = "rt_single_read"
    /\ UNCHANGED <<other_vars, reusable, inv, cfg, loop_i, model_override, checkpoints, events, ret, fs_vars>>

\* lines 446-468: the single model's exit code and checkpoint.
RT_SingleExit ==
    /\ pc = "rt_single_exit"
    /\ \/ /\ Cur.returncode # 0
          /\ events' = Emit(events, [event |-> "error", model |-> RunName,
                                     code |-> Cur.returncode])
          /\ Return(Cur.returncode)
       \/ /\ Cur.returncode = 0
          /\ events' = Emit(events, [event |-> "done", run_name |-> RunName,
                            checkpoint_path |-> resolve_checkpoint_in_dir(fs_ckpt[SingleSlot])])
          /\ Return(0)
    /\ UNCHANGED <<other_vars, reusable, inv, cfg, loop_i, model_override, checkpoints, procs, fs_vars>>

RT == \/ RT_Start \/ RT_Split \/ RT_FineTune \/ RunMaceTrain_ReadLine \/ RunMaceTrain_Return
      \/ RT_BaseExit \/ RT_Freeze \/ RT_Train \/ RT_Member \/ RT_Popen \/ RT_CheckExit
      \/ RT_Done \/ RT_Single \/ RT_SinglePopen \/ RT_SingleExit

(***************************************************************************)
(* The orchestrator's specification                                        *)
(***************************************************************************)
OrchIdle ==
    /\ inv = 0
    /\ pc = "idle"
    /\ cfg = NoConfig
    /\ loop_i = 0
    /\ model_override = "none"
    /\ checkpoints = <<>>
    /\ events = <<>>
    /\ ret = <<>>
    /\ procs = <<>>
    /\ reusable = {}
    /\ fs_ckpt = [s \in Slots |-> MissingDir]
    /\ fs_data = [dir_exists |-> FALSE, files |-> [f \in SplitFiles |-> NoFile]]
    /\ fs_freeze = [exists |-> FALSE, mtime |-> 0, content |-> "none",
                    freeze |-> <<>>, unfreeze |-> <<>>]
    /\ src = [exists |-> TRUE, mtime |-> 0, content |-> "src"]

(***************************************************************************)
(* Inputs of check_convergence                                             *)
(***************************************************************************)
MaxPool == 2

\* raw per-structure scores (eV/A): 0, 0.0005, 0.001, 0.010, 0.015
ScoreValues == {Rat(0, 1), Rat(1, 2000), Rat(1, 1000), Rat(1, 100), Rat(3, 200)}

\* a per_structure entry: with a "score", or without one
ScoreEntries == {[k \in {"score"} |-> s] : s \in ScoreValues} \cup {EmptyDict}

PerStructureLists == UNION {[1..n -> ScoreEntries] : n \in 0..MaxPool}

StatKeys == {"max", "mean", "count"}

\* a stats object with any subset of its keys; the empty one is falsy
StatsDicts ==
    {[k \in K |-> CASE k = "max" -> mx [] k = "mean" -> mn [] k = "count" -> c] :
        K \in SUBSET StatKeys,
        mx \in {Rat(1, 100), Rat(3, 200)},
        mn \in {Rat(1, 200), Rat(3, 500)},
        c \in 0..MaxPool}

Reports ==
    {[k \in K |-> CASE k = "stats" -> st [] k = "per_structure" -> ps
                    [] k = "pool_size" -> MaxPool + 5] :
        K \in {{"per_structure"}, {"per_structure", "stats"},
               {"per_structure", "stats", "pool_size"}, {"stats"}, {}},
        st \in StatsDicts, ps \in PerStructureLists}

ValidationMaes ==
    {None} \cup ({Rat(40, 1), Rat(50, 1), Rat(60, 1)} \X {Rat(50, 1), Rat(101, 2)})

\* disagreement_max_threshold, disagreement_mean_threshold: the defaults, or 0
DisagreementThresholds == {<<Rat(10, 1), Rat(5, 1)>>, <<Rat(0, 1), Rat(0, 1)>>}

ConvInputs ==
    UNION {[data : Reports,
            validation_mae : ValidationMaes,
            disagreement_max_threshold  : {t[1]},
            disagreement_mean_threshold : {t[2]},
            mae_energy_threshold : {Rat(50, 1)},
            mae_force_threshold  : {Rat(50, 1)},
            pool_exhaustion_cutoff : {Rat(1, 1), Rat(0, 1)}] : t \in DisagreementThresholds}

NoResult == [converged |-> FALSE]

ConvIdle ==
    /\ conv_pc = "idle"
    /\ conv_in = NoResult
    /\ conv_out = NoResult

SeedIdle ==
    /\ seed_src = [exists |-> FALSE]
    /\ seed_dir0 = MissingDir
    /\ seed_dir = MissingDir
    /\ seed_hist = <<>>

TopKIdle ==
    /\ topk_in = NoResult
    /\ topk_out = NoResult

SplitIdle ==
    /\ split_in = NoResult
    /\ split_hist = <<>>

CallIdle ==
    /\ call_in = NoResult
    /\ call_out = NoResult

ConvInit ==
    /\ conv_pc = "call"
    /\ conv_in \in ConvInputs
    /\ conv_out = NoResult
    /\ SeedIdle
    /\ TopKIdle
    /\ SplitIdle
    /\ OrchIdle
    /\ CallIdle

\* One call of check_convergence with the arguments conv_in.
CheckConvergence ==
    /\ conv_pc = "call"
    /\ conv_out' = check_convergence(conv_in.data, conv_in.validation_mae,
                        conv_in.disagreement_max_threshold,
                        conv_in.disagreement_mean_threshold,
                        conv_in.mae_energy_threshold,
                        conv_in.mae_force_threshold,
                        conv_in.pool_exhaustion_cutoff)
    /\ conv_pc' = "returned"
    /\ UNCHANGED <<conv_in, seed_vars, topk_vars, split_vars, call_vars, orch_vars>>

ConvNext == CheckConvergence

SpecConv == ConvInit /\ [][ConvNext]_vars

(***************************************************************************)
(* Properties of check_convergence                                         *)
(***************************************************************************)
Returned == conv_pc = "returned"

ReasonKinds == {conv_out.reasons[i].kind : i \in 1..Len(conv_out.reasons)}

\* The report of the call, read key by key.
InStats == IF "stats" \in DOMAIN conv_in.data THEN conv_in.data["stats"] ELSE EmptyDict
HasStats == DOMAIN InStats # {}
InPool == IF "per_structure" \in DOMAIN conv_in.data
          THEN conv_in.data["per_structure"] ELSE <<>>
InScore(i) == IF "score" \in DOMAIN InPool[i] THEN InPool[i]["score"] ELSE Zero
InScores == [i \in 1..Len(InPool) |-> InScore(i)]

\* The raw statistics the report carries: those of stats when it has any,
\* otherwise those of the per-structure scores.
RawMax ==
    IF HasStats THEN (IF "max" \in DOMAIN InStats THEN InStats["max"] ELSE Zero)
    ELSE IF InPool = <<>> THEN Zero
    ELSE InScore(CHOOSE i \in 1..Len(InPool) :
                    \A j \in 1..Len(InPool) : ~RGt(InScore(j), InScore(i)))

\* n * RawMean, as a rational (n = 1 when the mean is given by stats)
RawMeanTimes ==
    IF HasStats THEN (IF "mean" \in DOMAIN InStats THEN InStats["mean"] ELSE Zero)
    ELSE NpSum(InScores)
RawMeanN == IF HasStats \/ InPool = <<>> THEN 1 ELSE Len(InPool)

RawCount ==
    IF HasStats THEN (IF "count" \in DOMAIN InStats THEN InStats["count"] ELSE 0)
    ELSE Len(InPool)

\* 1000 * x <= t, by cross-multiplication
ScaledLe(x, n, t) == 1000 * x[1] * t[2] <= t[1] * x[2] * n

LowDisagreementHolds ==
    /\ ScaledLe(RawMax, 1, conv_in.disagreement_max_threshold)
    /\ ScaledLe(RawMeanTimes, RawMeanN, conv_in.disagreement_mean_threshold)

\* entries whose raw score is strictly above cutoff / 1000
AboveCutoff ==
    {i \in 1..Len(InPool) :
        InScore(i)[1] * conv_in.pool_exhaustion_cutoff[2] * 1000
            > conv_in.pool_exhaustion_cutoff[1] * InScore(i)[2]}

ValidationHolds ==
    /\ conv_in.validation_mae # None
    /\ RLe(conv_in.validation_mae[1], conv_in.mae_energy_threshold)
    /\ RLe(conv_in.validation_mae[2], conv_in.mae_force_threshold)

\* pool exhaustion with the pool size the evaluator goes by (stats.count when
\* the report has stats)
PoolExhaustionEvaluated == AboveCutoff = {} /\ RawCount > 0

SatisfiedCriteria ==
    (IF LowDisagreementHolds THEN {"disagreement_low"} ELSE {})
    \cup (IF PoolExhaustionEvaluated THEN {"pool_exhausted"} ELSE {})
    \cup (IF ValidationHolds THEN {"validation_mae"} ELSE {})

C3_PoolExhaustionIffNonEmptyPool ==
    Returned =>
        /\ ("pool_exhausted" \in ReasonKinds) <=> (InPool # <<>> /\ AboveCutoff = {})
        /\ conv_out.metrics["structures_above_cutoff"] = Cardinality(AboveCutoff)

\* C4: the validation criterion is satisfied iff validation metrics are
\* supplied and both MAEs are at or below their thresholds; without validation
\* metrics it adds nothing to reasons, to suggest_stop or to metrics.
C4_ValidationCriterion ==
    Returned =>
        /\ ("validation_mae" \in ReasonKinds) <=> ValidationHolds
        /\ conv_in.validation_mae = None =>
              /\ "validation_mae" \notin ReasonKinds
              /\ conv_out.suggest_stop
                    <=> (ReasonKinds \cap {"disagreement_low", "pool_exhausted"} # {})
              /\ DOMAIN conv_out.metrics \cap
                    {"validation_mae_energy", "validation_mae_force", "mae_reason"} = {}

\* validation accuracy is the only satisfied criterion
C4_Witness ==
    /\ Returned
    /\ ValidationHolds
    /\ ReasonKinds = {"validation_mae"}

\* The aggregate statistics of a list of scored entries, as a scorer stores
\* them: max, mean and count of the score array (0 for an empty array).
ScoreSum(n) == NpSum([i \in 1..n |-> InScore(i)])

StatsOfScores ==
    [k \in StatKeys |->
        CASE k = "max" ->
                IF InPool = <<>> THEN Zero
                ELSE InScore(CHOOSE i \in 1..Len(InPool) :
                                \A j \in 1..Len(InPool) : RLe(InScore(j), InScore(i)))
          [] k = "mean" ->
                IF InPool = <<>> THEN Zero
                ELSE Rat(ScoreSum(Len(InPool))[1], ScoreSum(Len(InPool))[2] * Len(InPool))
          [] k = "count" -> Len(InPool)]

AllScored == \A i \in 1..Len(InPool) : "score" \in DOMAIN InPool[i]

\* the result for the report of the call with the statistics stored in it
ResultWithStats ==
    check_convergence(Put(conv_in.data, "stats", StatsOfScores),
                      conv_in.validation_mae,
                      conv_in.disagreement_max_threshold,
                      conv_in.disagreement_mean_threshold,
                      conv_in.mae_energy_threshold,
                      conv_in.mae_force_threshold,
                      conv_in.pool_exhaustion_cutoff)

\* C23: for a list of per-structure scores, the result (converged, reasons,
\* suggest_stop, metrics) for the report without a stats object is the result
\* for the same report carrying stats = {max, mean, count} of those scores.
C23_StatsAbsentSameAsComputed ==
    (Returned /\ "per_structure" \in DOMAIN conv_in.data /\ AllScored
        /\ "stats" \notin DOMAIN conv_in.data) =>
        conv_out = ResultWithStats

\* two scores, the greater one second, no stats object
C23_Witness ==
    /\ Returned
    /\ "stats" \notin DOMAIN conv_in.data
    /\ Len(InPool) = 2
    /\ AllScored
    /\ RGt(InScore(2), InScore(1))
    /\ conv_out = ResultWithStats
    /\ conv_out.metrics["disagreement_max"] = Rat(1000 * InScore(2)[1], InScore(2)[2])

\* C29: in every result suggest_stop equals converged: a satisfied validation
\* criterion always records a reason.
C29_SuggestStopIsConverged ==
    Returned => (conv_out.suggest_stop <=> conv_out.converged)

\* the validation criterion is the only one satisfied: both are true
C29_Witness ==
    /\ Returned
    /\ ValidationHolds
    /\ ~LowDisagreementHolds
    /\ ~PoolExhaustionEvaluated
    /\ conv_out.suggest_stop
    /\ conv_out.converged

\* a report without per-structure entries, stats and pool_size
EmptyPoolReport ==
    /\ InPool = <<>>
    /\ ~HasStats
    /\ "pool_size" \notin DOMAIN conv_in.data

\* C30: for an empty pool (no per-structure entries, no stats), non-negative
\* disagreement thresholds and no validation metrics, the result is converged
\* and suggest_stop through the low-disagreement criterion alone (max = mean
\* = 0); pool exhaustion is not recorded and metrics.pool_size is 0.
C30_EmptyPoolConverges ==
    (Returned /\ EmptyPoolReport /\ conv_in.validation_mae = None
        /\ RLe(Zero, conv_in.disagreement_max_threshold)
        /\ RLe(Zero, conv_in.disagreement_mean_threshold)) =>
        /\ conv_out.converged
        /\ conv_out.suggest_stop
        /\ ReasonKinds = {"disagreement_low"}
        /\ Len(conv_out.reasons) = 1
        /\ conv_out.metrics["disagreement_max"] = Zero
        /\ conv_out.metrics["disagreement_mean"] = Zero
        /\ conv_out.metrics["pool_size"] = 0

\* the empty report against thresholds of 0
C30_Witness ==
    /\ Returned
    /\ conv_in.data = EmptyDict
    /\ conv_in.validation_mae = None
    /\ conv_in.disagreement_max_threshold = Zero
    /\ conv_in.disagreement_mean_threshold = Zero
    /\ conv_out.converged
    /\ "pool_exhausted" \notin ReasonKinds


(***************************************************************************)
(* Calls of seed_checkpoint_for_run on a checkpoint directory              *)
(***************************************************************************)
MaxFiles == 2
MaxMtime == 2
MaxSeedCalls == 2

\* names a checkpoint directory of member c0 (seed 0) may hold
DirNames ==
    {BestPt,
     SeedTarget(CName(0), 0),
     FileName(RunTag(CName(0), 0), 1, "pt"),
     FileName(<<"model">>, NoEpoch, "pt"),
     FileName(RunTag(CName(0), 0), NoEpoch, "model")}

DirEntries ==
    [name : DirNames, is_file : BOOLEAN, mtime : 1..MaxMtime, content : {"old"}]

\* directory listings: no two entries of one name
Listings ==
    {l \in UNION {[1..n -> DirEntries] : n \in 0..MaxFiles} :
        \A i, j \in 1..Len(l) : i # j => l[i].name # l[j].name}

DirStates == {MissingDir} \cup {[exists |-> TRUE, files |-> l] : l \in Listings}

SourceCkpts ==
    {[exists |-> FALSE]} \cup [exists : {TRUE}, mtime : {1}, content : {"src"}]

SeedInit ==
    /\ seed_src \in SourceCkpts
    /\ seed_dir0 \in DirStates
    /\ seed_dir = seed_dir0
    /\ seed_hist = <<>>
    /\ ConvIdle
    /\ TopKIdle
    /\ SplitIdle
    /\ OrchIdle
    /\ CallIdle

\* One call seed_checkpoint_for_run(source, work_dir, "c0", 0).
SeedCall ==
    /\ Len(seed_hist) < MaxSeedCalls
    /\ LET r == seed_checkpoint_for_run(seed_src, seed_dir, CName(0), 0)
       IN  /\ seed_dir' = r.dir
           /\ seed_hist' = Append(seed_hist, r)
    /\ UNCHANGED <<seed_src, seed_dir0, conv_vars, topk_vars, split_vars, call_vars, orch_vars>>

SeedNext == SeedCall

SpecSeed == SeedInit /\ [][SeedNext]_vars

\* the directory before call k
DirBefore(k) == IF k = 1 THEN seed_dir0 ELSE seed_hist[k - 1].dir

\* C9: seed_checkpoint_for_run is idempotent: when the directory already holds
\* a resolvable checkpoint no copy is made, the directory is unchanged and the
\* resolved checkpoint is returned; a second call in a row leaves the directory
\* as the first did and returns the same path.
C9_SeedIdempotent ==
    /\ \A k \in 1..Len(seed_hist) :
          (seed_src.exists /\ resolve_checkpoint_in_dir(DirBefore(k)) # NoPath) =>
              /\ ~seed_hist[k].raised
              /\ ~seed_hist[k].copied
              /\ seed_hist[k].dir = DirBefore(k)
              /\ seed_hist[k].path = resolve_checkpoint_in_dir(DirBefore(k))
    /\ Len(seed_hist) >= 2 =>
          /\ seed_hist[2].raised = seed_hist[1].raised
          /\ seed_hist[2].dir = seed_hist[1].dir
          /\ seed_hist[2].path = seed_hist[1].path

\* the first call copied the source, the second found the copy and made none
C9_Witness ==
    /\ Len(seed_hist) = 2
    /\ seed_hist[1].copied
    /\ ~seed_hist[2].copied
    /\ seed_hist[2].path = SeedTarget(CName(0), 0)
    /\ seed_hist[2].dir = seed_hist[1].dir

(***************************************************************************)
(* mace_active_learning.py: top_k                                          *)
(*                                                                         *)
(* A numpy array is a sequence; numpy's 0-based index i is position i + 1. *)
(* Scores are floats with integral values.  numpy leaves the order of      *)
(* equal elements undefined in argpartition and in argsort (default kind   *)
(* "quicksort"), so both are sets of permitted outcomes.                   *)
(***************************************************************************)
\* the arrangements of the indices 0..n-1
Permutations0(n) ==
    {p \in [1..n -> 0..(n - 1)] : \A a, b \in 1..n : p[a] = p[b] => a = b}

\* -scores
Negated(a) == [i \in 1..Len(a) |-> 0 - a[i]]

\* a[idx]
TakeAt(a, idx) == [i \in 1..Len(idx) |-> a[idx[i] + 1]]

\* x[:k]
Prefix(x, k) == SubSeq(x, 1, IF k < Len(x) THEN k ELSE Len(x))

\* np.argpartition(a, kth) raises ValueError unless -N <= kth < N
KthOutOfBounds(a, kth) == kth >= Len(a) \/ kth < 0 - Len(a)

\* np.argpartition(a, kth): any arrangement with the element at kth in its
\* sorted position, nothing larger before it and nothing smaller after it
ArgPartition(a, kth) ==
    LET at == IF kth < 0 THEN kth + Len(a) + 1 ELSE kth + 1
    IN  {p \in Permutations0(Len(a)) :
            /\ \A i \in 1..(at - 1) : a[p[i] + 1] <= a[p[at] + 1]
            /\ \A i \in (at + 1)..Len(a) : a[p[i] + 1] >= a[p[at] + 1]}

\* np.argsort(a): any arrangement that puts a in ascending order
ArgSort(a) ==
    {q \in Permutations0(Len(a)) :
        \A i \in 1..(Len(a) - 1) : a[q[i] + 1] <= a[q[i + 1] + 1]}

Raised == [raised |-> TRUE, idx |-> <<>>]

\* top_k(scores, k): the outcomes numpy permits.
top_k(scores, k) ==
    IF KthOutOfBounds(Negated(scores), k) THEN {Raised}
    ELSE {[raised |-> FALSE, idx |-> TakeAt(Prefix(p, k), q)] :
             <<p, q>> \in {pq \in ArgPartition(Negated(scores), k) \X Permutations0(IF k < Len(scores) THEN k ELSE Len(scores)) :
                              pq[2] \in ArgSort(TakeAt(Negated(scores), Prefix(pq[1], k)))}}

MaxScores == 4
MaxScore == 2

\* the scores of a pool of up to MaxScores structures and the count --k
TopKInputs ==
    [scores : UNION {[1..n -> 0..MaxScore] : n \in 0..MaxScores}, k : 0..(MaxScores + 1)]

TopKInit ==
    /\ topk_in \in TopKInputs
    /\ topk_out = NoResult
    /\ ConvIdle
    /\ SeedIdle
    /\ SplitIdle
    /\ OrchIdle
    /\ CallIdle

\* main, step 4: sel_idx = top_k(scores, args.k)
SelectTopK ==
    /\ topk_out = NoResult
    /\ topk_out' \in top_k(topk_in.scores, topk_in.k)
    /\ UNCHANGED <<topk_in, conv_vars, seed_vars, split_vars, call_vars, orch_vars>>

TopKNext == SelectTopK

SpecTopK == TopKInit /\ [][TopKNext]_vars

(***************************************************************************)
(* Properties of top_k                                                     *)
(***************************************************************************)
Selected == topk_out # NoResult

PoolN == Len(topk_in.scores)

ScoreOf(i) == topk_in.scores[i + 1]

PickedSet == {topk_out.idx[j] : j \in 1..Len(topk_out.idx)}

\* the result lists distinct indices of the pool, by descending score, and no
\* structure left out scores strictly higher than one that is listed
DescendingTop ==
    /\ PickedSet \subseteq 0..(PoolN - 1)
    /\ Cardinality(PickedSet) = Len(topk_out.idx)
    /\ \A j \in 1..(Len(topk_out.idx) - 1) :
          ScoreOf(topk_out.idx[j]) >= ScoreOf(topk_out.idx[j + 1])
    /\ \A i \in PickedSet, u \in (0..(PoolN - 1)) \ PickedSet : ScoreOf(u) <= ScoreOf(i)

\* C13: for 1 <= K <= N, K = N included, top_k returns exactly K distinct
\* indices in descending order of score, none left out scoring strictly higher.
C13_TopKReturnsKBest ==
    (Selected /\ 1 <= topk_in.k /\ topk_in.k <= PoolN) =>
        /\ ~topk_out.raised
        /\ Len(topk_out.idx) = topk_in.k
        /\ DescendingTop

\* C14: equal scores are ordered by ascending original index, both in which
\* of them are selected and in their order in the result.
C14_TiesByAscendingIndex ==
    (Selected /\ ~topk_out.raised) =>
        /\ \A a, b \in 1..Len(topk_out.idx) :
              (a < b /\ ScoreOf(topk_out.idx[a]) = ScoreOf(topk_out.idx[b]))
                  => topk_out.idx[a] < topk_out.idx[b]
        /\ \A i \in PickedSet, u \in (0..(PoolN - 1)) \ PickedSet :
              ScoreOf(u) = ScoreOf(i) => i < u

\* C15: with K > N the selection is all N structures by descending score.
C15_SelectAllWhenKExceedsPool ==
    (Selected /\ topk_in.k > PoolN) =>
        /\ ~topk_out.raised
        /\ Len(topk_out.idx) = PoolN
        /\ DescendingTop

(***************************************************************************)
(* split_dataset_pool.py and split_dataset.py                              *)
(*                                                                         *)
(* A structure is modelled by its index in the input; ase.io.read returns  *)
(* the N structures of the input, N = 0 included.  Python's Mersenne       *)
(* Twister is modelled by a small generator whose state random.seed sets   *)
(* from the seed alone.                                                    *)
(***************************************************************************)
RngModulus == 16

\* random.seed() without an argument would seed from the system's entropy
RandomSeed_FromEntropy(seed, entropy) == entropy % RngModulus

\* random.seed(args.seed): the generator state is a function of the seed
RandomSeed(seed, entropy) == seed % RngModulus

\* one step of the generator
NextRng(s) == (5 * s + 3) % RngModulus

\* x with the elements at the 0-based indices i and j exchanged
Swap(x, i, j) ==
    [p \in 1..Len(x) |-> IF p = i + 1 THEN x[j + 1] ELSE IF p = j + 1 THEN x[i + 1] ELSE x[p]]

\* random.shuffle(x): for i in reversed(range(1, len(x))): j = randbelow(i + 1); swap
RECURSIVE ShuffleFrom(_, _, _)
ShuffleFrom(x, i, s) ==
    IF i < 1 THEN x
    ELSE ShuffleFrom(Swap(x, i, NextRng(s) % (i + 1)), i - 1, NextRng(s))

Shuffle(x, s) == ShuffleFrom(x, Len(x) - 1, s)

\* list(range(n))
Range(n) == [p \in 1..n |-> p - 1]

\* x[a:b] for 0 <= a
Slice(x, a, b) ==
    LET lo == IF a < Len(x) THEN a ELSE Len(x)
        hi == IF b < Len(x) THEN b ELSE Len(x)
    IN  IF hi <= lo THEN <<>> ELSE SubSeq(x, lo + 1, hi)

SetOf(x) == {x[p] : p \in 1..Len(x)}

\* int(n_total * fraction) with a fraction that is a rational >= 0
IntOfProduct(n_total, fraction) == (n_total * fraction[1]) \div fraction[2]

\* n_valid computed by rounding to the nearest integer
NValid_Rounded(n_total, valid_fraction) ==
    (2 * n_total * valid_fraction[1] + valid_fraction[2]) \div (2 * valid_fraction[2])

\* n_valid = int(n_total * args.valid_fraction)
NValid(n_total, valid_fraction) == IntOfProduct(n_total, valid_fraction)

\* n_pool = int(n_total * args.pool_fraction)
NPool(n_total, pool_fraction) == IntOfProduct(n_total, pool_fraction)

\* n_train = max(1, n_total - n_valid - n_pool)
NTrain(n_total, n_valid, n_pool) ==
    IF n_total - n_valid - n_pool > 1 THEN n_total - n_valid - n_pool ELSE 1

\* valid_idx = set(indices[:n_valid])
ValidIdx(indices, n_valid) == SetOf(Slice(indices, 0, n_valid))

\* pool_idx = set(indices[n_valid : n_valid + n_pool])
PoolIdx(indices, n_valid, n_pool) == SetOf(Slice(indices, n_valid, n_valid + n_pool))

\* the last n_train shuffled indices, n_train clamped to 1
TrainIdx_LastNTrain(indices, n_valid, n_pool) ==
    SetOf(Slice(indices, Len(indices) - NTrain(Len(indices), n_valid, n_pool), Len(indices)))

\* train_idx = set(indices[n_valid + n_pool :])
TrainIdx(indices, n_valid, n_pool) == SetOf(Slice(indices, n_valid + n_pool, Len(indices)))

\* [atoms_list[i] for i in range(n_total) if i in idx]
Keep(n_total, idx) == SelectSeq(Range(n_total), LAMBDA i : i \in idx)

\* split_dataset_pool.main: what it writes.
split_dataset_pool(n_total, valid_fraction, pool_fraction, seed, entropy) ==
    LET n_valid == NValid(n_total, valid_fraction)
        n_pool  == NPool(n_total, pool_fraction)
        n_train == NTrain(n_total, n_valid, n_pool)
        indices == Shuffle(Range(n_total), RandomSeed(seed, entropy))
    IN  [error |-> "none", written |-> {"train", "valid", "pool"}, n_train |-> n_train,
         train |-> Keep(n_total, TrainIdx(indices, n_valid, n_pool)),
         valid |-> Keep(n_total, ValidIdx(indices, n_valid)),
         pool  |-> Keep(n_total, PoolIdx(indices, n_valid, n_pool))]

\* split_dataset.main: what it writes.
split_dataset(n_total, valid_fraction, seed, entropy) ==
    LET n_valid == NValid(n_total, valid_fraction)
        indices == Shuffle(Range(n_total), RandomSeed(seed, entropy))
        valid_idx == ValidIdx(indices, n_valid)
    IN  [error |-> "none", written |-> {"train", "valid"}, n_train |-> n_total - n_valid,
         train |-> Keep(n_total, (0..(n_total - 1)) \ valid_idx),
         valid |-> Keep(n_total, valid_idx),
         pool  |-> <<>>]

MaxStructures == 4
MaxSplitSeed == 1
MaxEntropy == 1
MaxSplitRuns == 2

\* --valid_fraction / --pool_fraction
Fractions == {Rat(0, 1), Rat(1, 4), Rat(1, 2), Rat(1, 1)}

SplitInputs ==
    [script : {"split_dataset_pool"}, n_total : 0..MaxStructures,
     valid_fraction : Fractions, pool_fraction : Fractions, seed : 0..MaxSplitSeed]
    \cup [script : {"split_dataset"}, n_total : 0..MaxStructures,
          valid_fraction : Fractions, pool_fraction : {Zero}, seed : 0..MaxSplitSeed]

SplitInit ==
    /\ split_in \in SplitInputs
    /\ split_hist = <<>>
    /\ ConvIdle
    /\ SeedIdle
    /\ TopKIdle
    /\ OrchIdle
    /\ CallIdle

\* One run of split_dataset_pool.py with the arguments split_in.
RunSplitPool ==
    /\ split_in.script = "split_dataset_pool"
    /\ Len(split_hist) < MaxSplitRuns
    /\ \E entropy \in 0..MaxEntropy :
          split_hist' = Append(split_hist,
              split_dataset_pool(split_in.n_total, split_in.valid_fraction,
                                 split_in.pool_fraction, split_in.seed, entropy))
    /\ UNCHANGED <<split_in, conv_vars, seed_vars, topk_vars, call_vars, orch_vars>>

\* One run of split_dataset.py with the arguments split_in.
RunSplit ==
    /\ split_in.script = "split_dataset"
    /\ Len(split_hist) < MaxSplitRuns
    /\ \E entropy \in 0..MaxEntropy :
          split_hist' = Append(split_hist,
              split_dataset(split_in.n_total, split_in.valid_fraction, split_in.seed, entropy))
    /\ UNCHANGED <<split_in, conv_vars, seed_vars, topk_vars, call_vars, orch_vars>>

SplitNext == RunSplitPool \/ RunSplit

SpecSplit == SplitInit /\ [][SplitNext]_vars

(***************************************************************************)
(* Properties of the splitters                                             *)
(***************************************************************************)
SplitN == split_in.n_total

\* the fractions are valid: they sum to at most 1
FractionsValid == RLe(RAdd(split_in.valid_fraction, split_in.pool_fraction), Rat(1, 1))

\* floor(N * f_v) and floor(N * f_p)
FloorValid == (SplitN * split_in.valid_fraction[1]) \div split_in.valid_fraction[2]
FloorPool == (SplitN * split_in.pool_fraction[1]) \div split_in.pool_fraction[2]

\* the shuffle of 0..N-1 that the seed determines
SeededShuffle == Shuffle(Range(SplitN), split_in.seed % RngModulus)

\* C16: for N >= 1 and fractions summing to at most 1 the train, valid and pool
\* partitions written are pairwise disjoint and together hold every index of
\* 0..N-1 exactly once.
C16_PartitionComplete ==
    \A r \in 1..Len(split_hist) :
        (SplitN >= 1 /\ FractionsValid) =>
            LET t == SetOf(split_hist[r].train)
                v == SetOf(split_hist[r].valid)
                p == SetOf(split_hist[r].pool)
            IN  /\ t \cap v = {}
                /\ t \cap p = {}
                /\ v \cap p = {}
                /\ t \cup v \cup p = 0..(SplitN - 1)
                /\ Len(split_hist[r].train) + Len(split_hist[r].valid)
                       + Len(split_hist[r].pool) = SplitN

\* four structures split into three non-empty partitions
C16_Witness ==
    /\ Len(split_hist) >= 1
    /\ split_in.script = "split_dataset_pool"
    /\ SplitN = 4
    /\ split_in.valid_fraction = Rat(1, 4)
    /\ split_in.pool_fraction = Rat(1, 2)
    /\ Len(split_hist[1].train) = 1
    /\ Len(split_hist[1].valid) = 1
    /\ Len(split_hist[1].pool) = 2

C18_TrainAtLeastOne ==
    \A r \in 1..Len(split_hist) :
        SplitN >= 1 =>
            Len(split_hist[r].train) =
                (IF SplitN - FloorValid - FloorPool > 1
                 THEN SplitN - FloorValid - FloorPool ELSE 1)

\* C19: with an empty input (N = 0) the splitter reports an invalid-input
\* error and writes no partition.
C19_EmptyInputIsAnError ==
    \A r \in 1..Len(split_hist) :
        SplitN = 0 =>
            /\ split_hist[r].error # "none"
            /\ split_hist[r].written = {}

\* C20: runs with the same seed, N and fractions write the same train, valid
\* and pool partitions, in the same order.
C20_SplitDeterministic ==
    \A a, b \in 1..Len(split_hist) :
        /\ split_hist[a].train = split_hist[b].train
        /\ split_hist[a].valid = split_hist[b].valid
        /\ split_hist[a].pool = split_hist[b].pool

\* two runs of a split whose shuffle moved the indices
C20_Witness ==
    /\ Len(split_hist) = 2
    /\ SplitN = 4
    /\ split_in.valid_fraction = Rat(1, 2)
    /\ split_in.pool_fraction = Rat(1, 4)
    /\ SeededShuffle # Range(4)
    /\ split_hist[2].valid # <<0, 1>>
    /\ split_hist[1].valid = split_hist[2].valid

(***************************************************************************)
(* Calls of resolve_checkpoint_in_dir on a checkpoint directory            *)
(***************************************************************************)
MaxResolveFiles == 3

\* names a checkpoints directory may hold
ResolveNames == DirNames \cup {FileName(<<"model">>, 7, "pt")}

\* regular files of any modification time; of an entry that is not a regular
\* file (a directory) the modification time is never read
ResolveEntries ==
    [name : ResolveNames, is_file : {TRUE}, mtime : 1..MaxMtime, content : {"old"}]
    \cup [name : ResolveNames, is_file : {FALSE}, mtime : {1}, content : {"old"}]

\* a missing directory, or one holding at most max_files entries
ResolveDirs(max_files) ==
    {MissingDir} \cup
    {[exists |-> TRUE, files |-> l] :
        l \in {f \in UNION {[1..n -> ResolveEntries] : n \in 0..max_files} :
                  \A i, j \in 1..Len(f) : i # j => f[i].name # f[j].name}}

ResolveInit ==
    /\ call_in \in [fn : {"resolve_checkpoint_in_dir"}, checkpoints_dir : ResolveDirs(MaxResolveFiles)]
    /\ call_out = NoResult
    /\ ConvIdle
    /\ SeedIdle
    /\ TopKIdle
    /\ SplitIdle
    /\ OrchIdle

\* One call resolve_checkpoint_in_dir(checkpoints_dir): the path returned and
\* the directory after the call (the function only reads it).
ResolveCall ==
    /\ call_in.fn = "resolve_checkpoint_in_dir"
    /\ call_out = NoResult
    /\ call_out' = [ret |-> resolve_checkpoint_in_dir(call_in.checkpoints_dir),
                    dir |-> call_in.checkpoints_dir]
    /\ UNCHANGED <<call_in, conv_vars, seed_vars, topk_vars, split_vars, orch_vars>>

ResolveNext == ResolveCall

SpecResolve == ResolveInit /\ [][ResolveNext]_vars

\* the regular .pt files of the directory of the call
RegularPt ==
    {i \in 1..Len(call_in.checkpoints_dir.files) :
        /\ call_in.checkpoints_dir.files[i].is_file
        /\ call_in.checkpoints_dir.files[i].name.ext = "pt"}

HoldsBestPt ==
    \E i \in 1..Len(call_in.checkpoints_dir.files) :
        call_in.checkpoints_dir.files[i].name = BestPt

\* entry f does not rank above entry e: a name without an epoch ranks below
\* every name with one, then the epoch decides, then the modification time
HasEpoch(e) == e.name.epoch # NoEpoch

NotRankedAbove(f, e) ==
    IF HasEpoch(e) /\ HasEpoch(f)
    THEN f.name.epoch < e.name.epoch \/ (f.name.epoch = e.name.epoch /\ f.mtime <= e.mtime)
    ELSE IF HasEpoch(e) THEN TRUE
    ELSE IF HasEpoch(f) THEN FALSE
    ELSE f.mtime <= e.mtime

\* C21: best.pt is returned whenever the directory holds it; otherwise the .pt
\* file greatest under (epoch, modification time), one without an epoch ranking
\* below every one with an epoch; none exactly when the directory is missing or
\* holds no .pt file; and the directory is left as it was.
C21_ResolverPreference ==
    call_out # NoResult =>
        LET files == call_in.checkpoints_dir.files
        IN  /\ (call_in.checkpoints_dir.exists /\ HoldsBestPt) => call_out.ret = BestPt
            /\ (call_in.checkpoints_dir.exists /\ ~HoldsBestPt /\ RegularPt # {}) =>
                  \E i \in RegularPt :
                      /\ call_out.ret = files[i].name
                      /\ \A j \in RegularPt : NotRankedAbove(files[j], files[i])
            /\ call_out.ret = NoPath <=>
                  \/ ~call_in.checkpoints_dir.exists
                  \/ (~HoldsBestPt /\ RegularPt = {})
            /\ call_out.dir = call_in.checkpoints_dir

\* epoch-7 is returned although model.pt (no epoch) is newer and epoch-1 is listed first
C21_Witness ==
    /\ call_out # NoResult
    /\ call_in.checkpoints_dir.exists
    /\ Len(call_in.checkpoints_dir.files) = 3
    /\ ~HoldsBestPt
    /\ call_in.checkpoints_dir.files[1].name = FileName(RunTag(CName(0), 0), 1, "pt")
    /\ call_in.checkpoints_dir.files[2].name = FileName(<<"model">>, NoEpoch, "pt")
    /\ call_in.checkpoints_dir.files[2].mtime = 2
    /\ call_in.checkpoints_dir.files[3].name = FileName(<<"model">>, 7, "pt")
    /\ call_in.checkpoints_dir.files[3].mtime = 1
    /\ RegularPt = {1, 2, 3}
    /\ call_out.ret = FileName(<<"model">>, 7, "pt")

(***************************************************************************)
(* mace_freeze.py: compute_freeze_keys                                     *)
(*                                                                         *)
(* A string is the sequence of its characters.                             *)
(***************************************************************************)
MaxKeys == 3
MaxPatterns == 2
MaxUnfreeze == 1

\* a letter in both cases
Chars == {"e", "E"}

Lower(c) == IF c = "E" THEN "e" ELSE c

\* containment that ignores the case of the letters
Contains_IgnoreCase(p, k) ==
    \E i \in 0..(Len(k) - Len(p)) : \A j \in 1..Len(p) : Lower(k[i + j]) = Lower(p[j])

\* Python's `p in k` for two strings
Contains(p, k) ==
    \E i \in 0..(Len(k) - Len(p)) : \A j \in 1..Len(p) : k[i + j] = p[j]

\* any(p in k for p in patterns)
AnyIn(patterns, k) == \E n \in 1..Len(patterns) : Contains(patterns[n], k)

compute_freeze_keys(keys, freeze, unfreeze) ==
    SelectSeq(keys, LAMBDA k : AnyIn(freeze, k) /\ ~AnyIn(unfreeze, k))

\* parameter names and patterns over the letter
ParamNames == {<<"e", "e">>, <<"e", "E">>, <<"E", "E">>, <<"E", "e", "e">>}

Patterns == {<<>>, <<"e">>, <<"E">>, <<"e", "e">>}

ListsOf(S, n) == UNION {[1..m -> S] : m \in 0..n}

FreezeKeysInputs ==
    [fn : {"compute_freeze_keys"},
     keys : ListsOf(ParamNames, MaxKeys),
     freeze : ListsOf(Patterns, MaxPatterns),
     unfreeze : ListsOf(Patterns, MaxUnfreeze)]

FreezeKeysInit ==
    /\ call_in \in FreezeKeysInputs
    /\ call_out = NoResult
    /\ ConvIdle
    /\ SeedIdle
    /\ TopKIdle
    /\ SplitIdle
    /\ OrchIdle

\* One call compute_freeze_keys(keys, freeze, unfreeze).
FreezeKeysCall ==
    /\ call_in.fn = "compute_freeze_keys"
    /\ call_out = NoResult
    /\ call_out' = [frozen |-> compute_freeze_keys(call_in.keys, call_in.freeze,
                                                   call_in.unfreeze)]
    /\ UNCHANGED <<call_in, conv_vars, seed_vars, topk_vars, split_vars, orch_vars>>

FreezeKeysNext == FreezeKeysCall

SpecFreezeKeys == FreezeKeysInit /\ [][FreezeKeysNext]_vars

\* p occurs in k as a run of consecutive characters, case and all
IsSubstring(p, k) ==
    p = <<>> \/ \E a \in 1..Len(k) : \E b \in a..Len(k) : SubSeq(k, a, b) = p

\* the positions of the names to hold fixed
FreezePositions ==
    {i \in 1..Len(call_in.keys) :
        /\ \E n \in 1..Len(call_in.freeze) : IsSubstring(call_in.freeze[n], call_in.keys[i])
        /\ \A n \in 1..Len(call_in.unfreeze) :
              ~IsSubstring(call_in.unfreeze[n], call_in.keys[i])}

\* the n-th of the positions, in ascending order
NthPosition(n) ==
    CHOOSE i \in FreezePositions : Cardinality({j \in FreezePositions : j < i}) = n - 1

\* C26: compute_freeze_keys returns exactly the parameter names, in their
\* original order, that contain at least one freeze pattern as a case-sensitive
\* substring and none of the unfreeze patterns.
C26_FreezeKeysExact ==
    (call_out # NoResult /\ call_in.fn = "compute_freeze_keys") =>
        /\ Len(call_out.frozen) = Cardinality(FreezePositions)
        /\ \A n \in 1..Len(call_out.frozen) :
              call_out.frozen[n] = call_in.keys[NthPosition(n)]

\* keys [ee, eE, EE], freeze [e], unfreeze [E]: only ee is frozen: eE holds an
\* unfreeze pattern and EE matches the freeze pattern in the other case only
C26_Witness ==
    /\ call_out # NoResult
    /\ call_in.fn = "compute_freeze_keys"
    /\ call_in.keys = <<<<"e", "e">>, <<"e", "E">>, <<"E", "E">>>>
    /\ call_in.freeze = <<<<"e">>>>
    /\ call_in.unfreeze = <<<<"E">>>>
    /\ call_out.frozen = <<<<"e", "e">>>>

(***************************************************************************)
(* model_disagreement.py: the scores and the report                        *)
(*                                                                         *)
(* Forces are integer vectors.  A square root and a standard deviation are *)
(* kept as the terms [sqrt |-> q] and [std |-> xs] (norm, mean likewise):  *)
(* only "is it zero" is asked of them.                                     *)
(***************************************************************************)
MaxModels == 2
MaxPoolN == 2
MaxAtoms == 1
MaxForce == 1
MaxEnergy == 1

\* np.std(xs)
NpStd(xs) == [std |-> xs]

\* a standard deviation is 0 iff all the values are equal, and positive otherwise
StdIsZero(s) == \A i, j \in 1..Len(s.std) : s.std[i] = s.std[j]

\* np.linalg.norm(v)**2 of one force vector
NormSq(v) == v[1] * v[1] + v[2] * v[2] + v[3] * v[3]

RECURSIVE SumNormSq(_)
SumNormSq(forces) ==
    IF forces = <<>> THEN 0 ELSE NormSq(forces[1]) + SumNormSq(Tail(forces))

\* np.sqrt(np.mean(mags**2, axis=1)) for one member
Rms(forces) == [sqrt |-> Rat(SumNormSq(forces), Len(forces))]

\* forces_stack: one (atoms, 3) array per member
score_force_rms_std(forces_stack) ==
    NpStd([m \in 1..Len(forces_stack) |-> Rms(forces_stack[m])])

\* np.std(forces_stack, axis=0), the norm per atom, the mean over the atoms
score_force_vec_std_mean(forces_stack) ==
    [mean |-> [a \in 1..Len(forces_stack[1]) |->
        [norm |-> [c \in 1..3 |->
            NpStd([m \in 1..Len(forces_stack) |-> forces_stack[m][a][c]])]]]]

\* the loop over the structures and the report written to --out_json
PerStructure(score_kind, all_E, all_F, N) ==
    [n \in 1..N |->
        LET energies == [m \in 1..Len(all_E) |-> all_E[m][n]]
            forces   == [m \in 1..Len(all_F) |-> all_F[m][n]]
        IN  [i |-> n - 1,
             score |-> IF score_kind = "energy_std" THEN NpStd(energies)
                       ELSE IF score_kind = "force_vec_std_mean"
                            THEN score_force_vec_std_mean(forces)
                       ELSE score_force_rms_std(forces),
             energy_std |-> NpStd(energies)]]

ReportOf(models, xyz, per_structure) ==
    Put(Put(Put(EmptyDict, "models", models), "xyz", xyz), "per_structure", per_structure)

ForceVectors == [1..3 -> 0..MaxForce]

ForceArrays == UNION {[1..a -> ForceVectors] : a \in 1..MaxAtoms}

ScoreKinds == {"force_rms_std", "force_vec_std_mean", "energy_std"}

\* what the M members predict for one structure: an energy each and a force
\* array each, all of the shape of the structure
StructurePredictions(M) ==
    [E : [1..M -> 0..MaxEnergy],
     F : UNION {[1..M -> [1..a -> ForceVectors]] : a \in 1..MaxAtoms}]

\* all_E[m][n] and all_F[m][n] for the predictions given per structure
AllE(preds, M) == [m \in 1..M |-> [n \in 1..Len(preds) |-> preds[n].E[m]]]

AllF(preds, M) == [m \in 1..M |-> [n \in 1..Len(preds) |-> preds[n].F[m]]]

ScoreInputs ==
    [fn : {"model_disagreement"}, score : ScoreKinds, M : {MaxModels},
     predict_raises : {FALSE}, preds : [1..MaxPoolN -> StructurePredictions(MaxModels)]]
    \cup UNION {UNION {
            [fn : {"model_disagreement"}, score : {"force_rms_std"}, M : {M},
             predict_raises : BOOLEAN, preds : [1..N -> StructurePredictions(M)]] :
            N \in 0..(MaxPoolN - 1)} : M \in 1..MaxModels}

ScoreInit ==
    /\ call_in \in ScoreInputs
    /\ call_out = NoResult
    /\ ConvIdle
    /\ SeedIdle
    /\ TopKIdle
    /\ SplitIdle
    /\ OrchIdle

\* One run of model_disagreement.main: the members predict, the structures are
\* scored, the report is written.  When predict_model raises nothing is written.
ScoreMain ==
    /\ call_in.fn = "model_disagreement"
    /\ call_out = NoResult
    /\ call_out' =
          IF call_in.predict_raises
          THEN [raised |-> TRUE, report |-> EmptyDict]
          ELSE [raised |-> FALSE,
                report |-> ReportOf(call_in.M, "pool.xyz",
                              PerStructure(call_in.score,
                                           AllE(call_in.preds, call_in.M),
                                           AllF(call_in.preds, call_in.M),
                                           Len(call_in.preds)))]
    /\ UNCHANGED <<call_in, conv_vars, seed_vars, topk_vars, split_vars, orch_vars>>

ScoreNext == ScoreMain

SpecScore == ScoreInit /\ [][ScoreNext]_vars

ReportWritten ==
    /\ call_out # NoResult
    /\ call_in.fn = "model_disagreement"
    /\ ~call_out.raised

\* C22: the report for a pool of N structures holds one per_structure entry per
\* structure, with the indices 0..N-1 in input order, and an aggregate stats
\* object with max, mean and count.
C22_ReportHasEntriesAndStats ==
    ReportWritten =>
        /\ "per_structure" \in DOMAIN call_out.report
        /\ Len(call_out.report["per_structure"]) = Len(call_in.preds)
        /\ \A n \in 1..Len(call_in.preds) :
              call_out.report["per_structure"][n].i = n - 1
        /\ "stats" \in DOMAIN call_out.report
        /\ DOMAIN Get(call_out.report, "stats", EmptyDict) = {"max", "mean", "count"}

\* the force_rms_std score of structure n in the report
RmsStdScored(n) ==
    /\ ReportWritten
    /\ call_in.score = "force_rms_std"
    /\ call_in.M = 2
    /\ n \in 1..Len(call_in.preds)

\* C24: for two members force_rms_std is 0 when both predict the same forces,
\* and strictly positive as soon as one force component of one member differs.
C24_ZeroIffIdenticalForces ==
    \A n \in 1..MaxPoolN :
        RmsStdScored(n) =>
            (StdIsZero(call_out.report["per_structure"][n].score)
                <=> call_in.preds[n].F[1] = call_in.preds[n].F[2])

(***************************************************************************)
(* model_disagreement.py: resolve_inference_model_path and predict_model   *)
(* (mace_active_learning.py: the same resolve_inference_model_path and     *)
(* predict)                                                                *)
(*                                                                         *)
(* The content of a file is what torch.load gives for it: "model" (an      *)
(* exported model object), "dict" (a training checkpoint, a plain dict) or *)
(* "state_dict" (an OrderedDict of tensors).                               *)
(***************************************************************************)
\* the names in the directory of a committee member
CheckpointPt == FileName(RunTag(CName(0), 0), 1, "pt")

ExportedModel == FileName(RunTag(CName(0), 0), NoEpoch, "model")

OtherModel == FileName(<<"other">>, NoEpoch, "model")

Payloads == {"model", "dict", "state_dict"}

\* base_stem = EPOCH_SUFFIX_RE.sub("", model_path.stem); p.stem == base_stem
StemMatches(p, model_path) == p.epoch = NoEpoch /\ p.base = model_path.base

\* ranked.sort(key=mtime, reverse=True); ranked[0]: the first of the newest
NewestFirst(ranked) ==
    ranked[CHOOSE i \in 1..Len(ranked) :
              /\ \A j \in 1..Len(ranked) : ranked[j].mtime <= ranked[i].mtime
              /\ \A j \in 1..(i - 1) : ranked[j].mtime < ranked[i].mtime]

resolve_inference_model_path(model_path, parent) ==
    IF model_path.ext = "model" /\ HasEntry(parent.files, model_path) THEN model_path
    ELSE IF ~parent.exists THEN model_path
    ELSE LET model_candidates ==
                 SelectSeq(parent.files, LAMBDA e : e.name.ext = "model" /\ e.is_file)
             matching ==
                 SelectSeq(model_candidates, LAMBDA e : StemMatches(e.name, model_path))
             ranked == IF matching # <<>> THEN matching ELSE model_candidates
         IN  IF model_candidates = <<>> THEN model_path
             ELSE NewestFirst(ranked).name

\* the entry of the directory with the given name
EntryOf(parent, name) ==
    parent.files[CHOOSE i \in 1..Len(parent.files) : parent.files[i].name = name]

\* MACECalculator(model_paths=...): torch.load and model.to(device)
MACECalculator(parent, name) ==
    IF ~HasEntry(parent.files, name) \/ ~EntryOf(parent, name).is_file
    THEN [raises |-> "FileNotFoundError", message |-> <<name>>]
    ELSE IF EntryOf(parent, name).content = "model"
    THEN [raises |-> "none", message |-> <<>>]
    ELSE IF EntryOf(parent, name).content = "dict"
    THEN [raises |-> "AttributeError", message |-> <<"'dict' object has no attribute 'to'">>]
    ELSE [raises |-> "AttributeError",
          message |-> <<"'collections.OrderedDict' object has no attribute 'to'">>]

\* predict_model up to the construction of the calculator
predict_model(model_path, parent) ==
    LET resolved_model == resolve_inference_model_path(model_path, parent)
        calc == MACECalculator(parent, resolved_model)
    IN  IF calc.raises = "AttributeError"
           /\ calc.message = <<"'dict' object has no attribute 'to'">>
        THEN [resolved |-> resolved_model, raises |-> "RuntimeError",
              message |-> <<"Model file is not inference-ready: ", resolved_model>>]
        ELSE [resolved |-> resolved_model, raises |-> calc.raises, message |-> calc.message]

\* regular files of any modification time and payload; of an entry that is
\* not a regular file neither is read
PredictEntries ==
    [name : {CheckpointPt, ExportedModel, OtherModel}, is_file : {TRUE},
     mtime : 1..MaxMtime, content : Payloads]
    \cup [name : {CheckpointPt, ExportedModel, OtherModel}, is_file : {FALSE},
          mtime : {1}, content : {"model"}]

PredictDirs(max_files) ==
    {MissingDir} \cup
    {[exists |-> TRUE, files |-> l] :
        l \in {f \in UNION {[1..n -> PredictEntries] : n \in 0..max_files} :
                  \A i, j \in 1..Len(f) : i # j => f[i].name # f[j].name}}

PredictInit ==
    /\ call_in \in [fn : {"predict_model"}, model_path : {CheckpointPt, ExportedModel},
                    parent : PredictDirs(MaxResolveFiles)]
    /\ call_out = NoResult
    /\ ConvIdle
    /\ SeedIdle
    /\ TopKIdle
    /\ SplitIdle
    /\ OrchIdle

\* One call predict_model(model_path, ...) with model_path in the directory parent.
PredictCall ==
    /\ call_in.fn = "predict_model"
    /\ call_out = NoResult
    /\ call_out' = predict_model(call_in.model_path, call_in.parent)
    /\ UNCHANGED <<call_in, conv_vars, seed_vars, topk_vars, split_vars, orch_vars>>

PredictNext == PredictCall

SpecPredict == PredictInit /\ [][PredictNext]_vars

IsRegularFile(parent, name) ==
    HasEntry(parent.files, name) /\ EntryOf(parent, name).is_file

\* a raw training checkpoint was given and its directory holds the exported
\* model named after it
CheckpointWithExport ==
    /\ call_out # NoResult
    /\ call_in.fn = "predict_model"
    /\ call_in.model_path = CheckpointPt
    /\ IsRegularFile(call_in.parent, CheckpointPt)
    /\ IsRegularFile(call_in.parent, ExportedModel)

\* the file handed to the calculator is there and is not an exported model
LoadedNotInferenceReady ==
    /\ call_out # NoResult
    /\ call_in.fn = "predict_model"
    /\ IsRegularFile(call_in.parent, call_out.resolved)
    /\ EntryOf(call_in.parent, call_out.resolved).content # "model"

\* C25: given a raw training checkpoint whose directory holds the exported
\* .model of the same base name (the _epoch-<n> suffix removed), that artifact
\* is loaded instead; and when the loaded file is not inference-ready the
\* error is labelled as such and names the file at fault.
C25_ExportPreferredAndErrorLabelled ==
    /\ CheckpointWithExport => call_out.resolved = ExportedModel
    /\ LoadedNotInferenceReady =>
          /\ call_out.raises = "RuntimeError"
          /\ call_out.message = <<"Model file is not inference-ready: ", call_out.resolved>>

\* what does hold: the export is preferred, and a plain-dict checkpoint gets
\* the labelled error
ExportPreferredAndDictLabelled ==
    /\ CheckpointWithExport => call_out.resolved = ExportedModel
    /\ (LoadedNotInferenceReady
          /\ EntryOf(call_in.parent, call_out.resolved).content = "dict") =>
          /\ call_out.raises = "RuntimeError"
          /\ call_out.message = <<"Model file is not inference-ready: ", call_out.resolved>>

(***************************************************************************)
(* Invocations of the orchestrators                                        *)
(***************************************************************************)
Init ==
    /\ OrchIdle
    /\ CallIdle
    /\ ConvIdle
    /\ SeedIdle
    /\ TopKIdle
    /\ SplitIdle

Next == Invoke \/ RC \/ RT \/ Trainer

Spec == Init /\ [][Next]_vars

(***************************************************************************)
(* Properties of committee training                                        *)
(***************************************************************************)
IsCommitteeProc(p) == p.slot.kind = "iter"

\* the committee trainers this invocation has started, in order
CommitteeProcs == SelectSeq(procs, IsCommitteeProc)

\* positions at which the orchestrator is blocked on the trainer it started
ReadingPcs == {"rc_read", "rt_read", "rt_base_read", "rt_single_read"}

\* positions inside the committee loop
CommitteeLoopPcs ==
    {"rc_member", "rc_popen", "rc_read", "rc_exit",
     "rt_member", "rt_popen", "rt_read", "rt_exit"}

DoneEvents == {k \in 1..Len(events) : events[k].event = "done"}
ErrorEvents == {k \in 1..Len(events) : events[k].event = "error"}

\* C5: the trainers of the committee members are started in ascending seed
\* order 0, 1, ..., at most one trainer process is running at any time, and a
\* trainer is started only after the one before it has exited (the orchestrator
\* leaves its wait only once the process has exited).
C5_OneTrainerAtATimeInSeedOrder ==
    /\ \A k \in 1..Len(CommitteeProcs) :
          /\ CommitteeProcs[k].seed = k - 1
          /\ CommitteeProcs[k].name = CName(k - 1)
    /\ Len(CommitteeProcs) <= cfg.committee_size
    /\ Cardinality({k \in 1..Len(procs) : procs[k].status # "exited"}) <= 1
    /\ \A k \in 1..(Len(procs) - 1) : procs[k].status = "exited"
    /\ pc \notin ReadingPcs => \A k \in 1..Len(procs) : procs[k].status = "exited"
    /\ (DoneEvents # {} /\ cfg.committee_mode) => Len(CommitteeProcs) = cfg.committee_size

\* the trainer of c1 is running, the one of c0 has exited
C5_Witness ==
    /\ Len(CommitteeProcs) = 2
    /\ CommitteeProcs[1].status = "exited"
    /\ CommitteeProcs[2].status = "running"
    /\ CommitteeProcs[2].seed = 1

\* committee trainers that exited with a non-zero code
FailedProcs ==
    {k \in 1..Len(procs) :
        /\ IsCommitteeProc(procs[k])
        /\ procs[k].status = "exited"
        /\ procs[k].returncode # 0}

\* C6: when the trainer of member i exits non-zero, no trainer is started for a
\* later member, no done event is emitted, the invocation ends with an error
\* event naming c<i> and the exit code and returns that code, and the
\* checkpoint directories are left as they are.
C6_AbortOnMemberFailure ==
    /\ [](\A k \in FailedProcs :
            /\ k = Len(procs)
            /\ DoneEvents = {}
            /\ pc = "returned" =>
                  /\ ret = <<procs[k].returncode>>
                  /\ events[Len(events)] = [event |-> "error", model |-> procs[k].name,
                                            code |-> procs[k].returncode]
                  /\ ErrorEvents = {Len(events)})
    /\ [][FailedProcs # {} => fs_ckpt' = fs_ckpt]_vars

\* member c1 failed with code 2 after c0 was trained; c0's checkpoint is on disk
C6_Witness ==
    /\ pc = "returned"
    /\ ret = <<2>>
    /\ Len(procs) = 2
    /\ 2 \in FailedProcs
    /\ procs[2].name = CName(1)
    /\ resolve_checkpoint_in_dir(fs_ckpt[procs[1].slot]) # NoPath

\* C7: whenever committee training of size M emits done, its checkpoints list
\* has exactly M entries, the i-th resolved from c<i>'s checkpoint directory.
C7_DoneListsOneCheckpointPerMember ==
    \A k \in DoneEvents :
        cfg.committee_mode =>
            /\ Len(events[k].checkpoints) = cfg.committee_size
            /\ \A m \in 1..Len(events[k].checkpoints) :
                  events[k].checkpoints[m].slot = MemberSlot(cfg.iter, m - 1)

\* a file of the directory that is a copy of the checkpoint src
HoldsCopyOf(dir, source) ==
    \E k \in 1..Len(dir.files) :
        /\ dir.files[k].is_file
        /\ dir.files[k].content = source.content
        /\ dir.files[k].mtime = source.mtime

\* the trainer of member loop_i is about to be started with a shared checkpoint
AboutToStartSeeded == pc \in {"rc_popen", "rt_popen"} /\ model_override # "none"

\* the step that seeds member loop_i's directory and goes on to start its trainer
SeedStep ==
    /\ pc \in {"rc_member", "rt_member"}
    /\ pc' \in {"rc_popen", "rt_popen"}
    /\ model_override # "none"

\* C8 as claimed: with a shared checkpoint, every member's directory holds a
\* copy of it when the member's trainer is started.
C8_CopiedForEveryMember ==
    AboutToStartSeeded =>
        HoldsCopyOf(fs_ckpt[MemberSlot(cfg.iter, loop_i)], SourceOf(model_override))

\* C8 amended: seeding a member copies the shared checkpoint into the member's
\* directory when that directory holds no resolvable checkpoint and leaves the
\* directory as it is when it holds one; either way the directory resolves to
\* a checkpoint when the trainer is started; and no step of the committee loop
\* changes the shared checkpoint.
C8_CopyOnSeedUnlessPresent ==
    /\ [][SeedStep =>
            LET slot == MemberSlot(cfg.iter, loop_i)
            IN  IF resolve_checkpoint_in_dir(fs_ckpt[slot]) = NoPath
                THEN /\ HoldsCopyOf(fs_ckpt'[slot], SourceOf(model_override))
                     /\ HasEntry(fs_ckpt'[slot].files, SeedTarget(CName(loop_i), loop_i))
                ELSE fs_ckpt'[slot] = fs_ckpt[slot]]_vars
    /\ [](AboutToStartSeeded =>
            resolve_checkpoint_in_dir(fs_ckpt[MemberSlot(cfg.iter, loop_i)]) # NoPath)
    /\ [][(pc \in CommitteeLoopPcs /\ model_override # "none") =>
            /\ src' = src
            /\ fs_freeze' = fs_freeze]_vars

\* the second member's directory has just received its copy of the checkpoint
C8_Witness ==
    /\ AboutToStartSeeded
    /\ loop_i = 1
    /\ HoldsCopyOf(fs_ckpt[MemberSlot(cfg.iter, 1)], SourceOf(model_override))
    /\ resolve_checkpoint_in_dir(fs_ckpt[MemberSlot(cfg.iter, 1)]) = SeedTarget(CName(1), 1)

\* C10: every artifact of iteration n lies under a path keyed by n, and an
\* invocation for a later iteration m > n leaves the artifacts of n as they are:
\* the split files written for n and the checkpoint directories of n.
C10_LaterIterationKeepsArtifacts ==
    [][(pc # "idle" /\ pc' # "idle" /\ cfg' = cfg) =>
         /\ \A f \in SplitFiles :
               (fs_data.files[f].exists /\ fs_data.files[f].by_iter < cfg.iter)
                   => fs_data'.files[f] = fs_data.files[f]
         /\ \A n \in 0..MaxIter, m \in 0..(MaxCommittee - 1) :
               n < cfg.iter => fs_ckpt'[MemberSlot(n, m)] = fs_ckpt[MemberSlot(n, m)]]_vars

(***************************************************************************)
(* Properties of re-invocation                                             *)
(***************************************************************************)
\* C11: a member whose checkpoint a completed earlier invocation of the same
\* (run, iteration) listed is not trained again: no trainer process is started
\* for it, and its checkpoint is listed in the done event of the re-invocation.
C11_ReuseInsteadOfRetrain ==
    /\ \A k \in 1..Len(procs) :
          IsCommitteeProc(procs[k]) => procs[k].slot \notin reusable
    /\ \A k \in DoneEvents :
          cfg.committee_mode =>
              \A m \in 0..(cfg.committee_size - 1) :
                  MemberSlot(cfg.iter, m) \in reusable =>
                      \E j \in 1..Len(events[k].checkpoints) :
                          events[k].checkpoints[j].slot = MemberSlot(cfg.iter, m)

\* the base-model trainers this invocation has started
BaseProcs == {k \in 1..Len(procs) : procs[k].slot = BaseSlot}

\* C12: the base model is trained at most once per run: no invocation starts
\* the base-model trainer when an earlier invocation of the run has already
\* trained the base model and written freeze/freeze_init.pt from it.
C12_BaseTrainedOncePerRun ==
    BaseProcs # {} =>
        ~(/\ fs_freeze.exists
          /\ fs_freeze.mtime < inv
          /\ \E j \in 1..Len(fs_ckpt[BaseSlot].files) :
                /\ fs_ckpt[BaseSlot].files[j].content = "trained"
                /\ fs_ckpt[BaseSlot].files[j].mtime < inv)

(***************************************************************************)
(* Properties of the event stream of an invocation                         *)
(***************************************************************************)
TerminalEvents == DoneEvents \cup ErrorEvents

ConfigErrorMessages ==
    {<<"dataset not found">>,
     <<"Provided freeze_init checkpoint not found">>,
     <<"Provided base checkpoint not found">>,
     <<"Fine-tune mode requires base checkpoint path or TRAIN_BASE_FIRST=1">>}

\* no split, trainer or freeze subprocess was started by this invocation
NothingLaunched ==
    /\ procs = <<>>
    /\ \A f \in SplitFiles : fs_data.files[f].by_inv # inv
    /\ \A k \in 1..Len(events) : events[k] # LogEvent(<<"Splitting dataset...">>)
    /\ fs_freeze.mtime # inv

\* C28: in run_training_web every configuration error (FREEZE_PATTERNS_JSON
\* that is not valid JSON, a freeze-init or base checkpoint path that does not
\* exist, fine-tune mode with neither a base checkpoint nor TRAIN_BASE_FIRST, a
\* missing dataset path) ends the run with an error event before any external
\* process has been launched.
C28_ConfigErrorsBeforeAnyProcess ==
    cfg.prog = "RT" =>
        /\ \A k \in ErrorEvents :
              (events[k] \in {ErrorEvent(m) : m \in ConfigErrorMessages}) => NothingLaunched
        /\ (cfg.patterns_env = "invalid" /\ pc # "rt_start") =>
              /\ pc = "returned"
              /\ ErrorEvents # {}
              /\ NothingLaunched

\* what does hold: a missing dataset is reported before anything is launched
MissingDatasetBeforeAnyProcess ==
    (cfg.prog = "RT" /\ ~cfg.dataset_ok /\ pc # "rt_start") =>
        /\ pc = "returned"
        /\ events = <<ErrorEvent(<<"dataset not found">>)>>
        /\ NothingLaunched

====
